---- MODULE Spec2Model ----
(***************************************************************************)
(* Movement analytics and ranking pipeline of GoalieScout.                 *)
(*                                                                         *)
(*   src/src/reports/generator.py      ReportGenerator                     *)
(*   src/src/ai_providers/*.py         OpenAI / Anthropic / Ollama         *)
(*   src/test_system.py                MockAIProvider, test pipeline       *)
(*   src/src/metrics/movement.py       MovementMetrics                     *)
(*   src/src/data/loader.py            BDCDataLoader                       *)
(*                                                                         *)
(* Python dicts are records (functions over their keys), lists are         *)
(* sequences, and the report dicts live in a heap of objects so that the   *)
(* in-place update made by rank_players is visible through every list that *)
(* holds the same object.  Text is a sequence of one-character strings.    *)
(* Floats are fixed-point integers with Scale steps per unit.              *)
(***************************************************************************)
EXTENDS Integers, Sequences, FiniteSets, TLC

VARIABLES
    provider,        \* which scoring capability the ReportGenerator holds
    players,         \* rows the pipeline iterates over (name, position, metrics)
    idx,             \* number of rows of players already processed
    heap,            \* report objects, indexed by object id
    all_reports,     \* list of object ids, in append order
    ranked_reports,  \* list returned by rank_players
    summary,         \* dict returned by generate_summary
    output_file,     \* JSON document save_reports_json wrote (None before)
    calls,           \* the calls made on the scoring capability, in order
    locals,          \* locals of a generate_player_report in progress (or None)
    pc,              \* position of the pipeline
    op,              \* name of the function applied to arg ("none" before)
    arg,             \* input of a single function call
    ret              \* its return value

vars == <<provider, players, idx, heap, all_reports, ranked_reports, summary,
          output_file, calls, locals, pc, op, arg, ret>>

pipeVars == <<provider, players, idx, heap, all_reports, ranked_reports,
              summary, output_file, calls, locals, pc>>

callVars == <<op, arg, ret>>

(***************************************************************************)
(* Bounds of the model.                                                    *)
(***************************************************************************)
MaxBatch == 4       \* longest player list with an injected or mock capability
MaxLLMBatch == 2    \* longest player list with an OpenAI/Anthropic/Ollama one
MaxTextLen == 3     \* longest reply text of a scoring call
TierProbe == 15     \* scores probed run from -TierProbe to 100 + TierProbe
MaxCols == 3        \* most columns of a table in column resolution
MaxSamples == 3     \* longest tracking series
MaxTime == 2        \* timestamps run from 0 to MaxTime
Scale == 100        \* fixed-point steps per unit of a float quantity

None == "None"      \* Python's None

Range(s) == {s[i] : i \in DOMAIN s}

Min(a, b) == IF a < b THEN a ELSE b

Max(a, b) == IF a > b THEN a ELSE b

\* All sequences over S of length 0..n.
SeqsUpTo(S, n) == UNION {[1..k -> S] : k \in 0..n}

\* dict.get(key, default)
Get(d, key, default) == IF key \in DOMAIN d THEN d[key] ELSE default

\* d[key] = value on a dict: the key is added or overwritten.
Put(d, key, value) == (key :> value) @@ d

(***************************************************************************)
(* ReportGenerator._score_to_tier                                          *)
(***************************************************************************)
score_to_tier_strict(score) ==
    IF score > 90 THEN "S"
    ELSE IF score > 80 THEN "A"
    ELSE IF score > 70 THEN "B"
    ELSE IF score > 60 THEN "C"
    ELSE IF score > 50 THEN "D"
    ELSE "F"

score_to_tier(score) ==
    IF score >= 90 THEN "S"
    ELSE IF score >= 80 THEN "A"
    ELSE IF score >= 70 THEN "B"
    ELSE IF score >= 60 THEN "C"
    ELSE IF score >= 50 THEN "D"
    ELSE "F"

(***************************************************************************)
(* Scoring capabilities: src/src/ai_providers/*_provider.py.               *)
(* A reply of the remote service is [kind, text]: kind "ok" carries the    *)
(* text of the answer, "exception" is a call that raised, "status" is an   *)
(* Ollama answer with a status code other than 200, "connection" is        *)
(* requests.exceptions.ConnectionError.                                    *)
(***************************************************************************)
Digits == {"0", "1", "2", "3", "4", "5", "6", "7", "8", "9"}

Whitespace == {" "}

DigitValue(c) ==
    CASE c = "0" -> 0 [] c = "1" -> 1 [] c = "2" -> 2 [] c = "3" -> 3
      [] c = "4" -> 4 [] c = "5" -> 5 [] c = "6" -> 6 [] c = "7" -> 7
      [] c = "8" -> 8 [] c = "9" -> 9

\* str.strip(): leading and trailing whitespace removed.
RECURSIVE LStrip(_)
LStrip(text) ==
    IF text # <<>> /\ Head(text) \in Whitespace THEN LStrip(Tail(text)) ELSE text

RECURSIVE RStrip(_)
RStrip(text) ==
    IF text # <<>> /\ text[Len(text)] \in Whitespace
    THEN RStrip(SubSeq(text, 1, Len(text) - 1))
    ELSE text

Strip(text) == RStrip(LStrip(text))

\* The greedy run of digits starting at the head of text.
RECURSIVE DigitRun(_)
DigitRun(text) ==
    IF text # <<>> /\ Head(text) \in Digits
    THEN <<Head(text)>> \o DigitRun(Tail(text))
    ELSE <<>>

\* re.search(r'\d+', text).group(): the leftmost match, taken greedily;
\* the empty sequence stands for no match (None).
RECURSIVE re_search_digits(_)
re_search_digits(text) ==
    IF text = <<>> THEN <<>>
    ELSE IF Head(text) \in Digits THEN DigitRun(text)
    ELSE re_search_digits(Tail(text))

\* int(s) on a string of decimal digits.
RECURSIVE ParseInt(_, _)
ParseInt(digits, acc) ==
    IF digits = <<>> THEN acc
    ELSE ParseInt(Tail(digits), acc * 10 + DigitValue(Head(digits)))

int(digits) == ParseInt(digits, 0)

\* The tail shared by the three providers: first number found, clamped.
score_from_text_unclamped(score_text) ==
    LET match == re_search_digits(score_text)
    IN  IF match # <<>> THEN int(match) ELSE 50

\* The same with 0, not 50, when no number is found.
score_from_text_default_zero(score_text) ==
    LET match == re_search_digits(score_text)
    IN  IF match # <<>>
        THEN Max(0, Min(100, int(match)))
        ELSE 0

score_from_text(score_text) ==
    LET match == re_search_digits(score_text)
    IN  IF match # <<>>
        THEN Max(0, Min(100, int(match)))
        ELSE 50

OpenAIProvider_generate_score(reply) ==
    IF reply.kind = "ok" THEN score_from_text(Strip(reply.text)) ELSE 50

AnthropicProvider_generate_score(reply) ==
    IF reply.kind = "ok" THEN score_from_text(Strip(reply.text)) ELSE 50

\* The same with 0, not 50, for a call that failed.
OllamaProvider_generate_score_zero(reply) ==
    IF reply.kind = "ok" THEN score_from_text(Strip(reply.text))
    ELSE 0

OllamaProvider_generate_score(reply) ==
    IF reply.kind = "ok" THEN score_from_text(Strip(reply.text))
    ELSE IF reply.kind = "status" THEN 50
    ELSE 50

ErrorReport == "Error generating report: <exception>"

ErrorStatus == "Error: Ollama returned status code <code>"

ErrorConnect == "Error: Could not connect to Ollama. Make sure Ollama is running locally."

OpenAIProvider_generate_report(reply) ==
    IF reply.kind = "ok" THEN Strip(reply.text) ELSE ErrorReport

AnthropicProvider_generate_report(reply) ==
    IF reply.kind = "ok" THEN Strip(reply.text) ELSE ErrorReport

OllamaProvider_generate_report(reply) ==
    IF reply.kind = "ok" THEN Strip(reply.text)
    ELSE IF reply.kind = "status" THEN ErrorStatus
    ELSE IF reply.kind = "connection" THEN ErrorConnect
    ELSE ErrorReport

LLMProviders == {"openai", "anthropic", "ollama"}

ReplyKinds(p) ==
    IF p = "ollama" THEN {"ok", "exception", "status", "connection"}
    ELSE {"ok", "exception"}

(***************************************************************************)
(* MockAIProvider of src/test_system.py.  A player name is the sequence of *)
(* its words; the prompt carries it, and `"McDavid" in prompt` is a test   *)
(* on the words of the prompt (no other part of the prompt holds a name).  *)
(***************************************************************************)
Contains(prompt, word) == word \in Range(prompt.player_name)

\* A score that depends on how many reports were made before, not on the prompt.
MockAIProvider_generate_score_by_turn(prompt) == 75 + Len(all_reports)

MockAIProvider_generate_score(prompt) ==
    IF Contains(prompt, "McDavid") THEN 95
    ELSE IF Contains(prompt, "Matthews") THEN 88
    ELSE IF Contains(prompt, "Makar") THEN 92
    ELSE IF Contains(prompt, "Shesterkin") THEN 90
    ELSE IF Contains(prompt, "MacKinnon") THEN 93
    ELSE 75

MockAIProvider_generate_report(prompt) ==
    IF Contains(prompt, "McDavid") THEN "Elite skating ability ..."
    ELSE IF Contains(prompt, "Matthews") THEN "Strong two-way forward ..."
    ELSE IF Contains(prompt, "Makar") THEN "Outstanding mobility ..."
    ELSE IF Contains(prompt, "Shesterkin") THEN "Excellent crease management ..."
    ELSE IF Contains(prompt, "MacKinnon") THEN "Dynamic skating ..."
    ELSE "Good movement patterns ..."

(***************************************************************************)
(* ReportGenerator: src/src/reports/generator.py                           *)
(***************************************************************************)
\* A position is text, so that str.upper acts letter by letter.
LowerLetters ==
    <<"a", "b", "c", "d", "e", "f", "g", "h", "i", "j", "k", "l", "m",
      "n", "o", "p", "q", "r", "s", "t", "u", "v", "w", "x", "y", "z">>

UpperLetters ==
    <<"A", "B", "C", "D", "E", "F", "G", "H", "I", "J", "K", "L", "M",
      "N", "O", "P", "Q", "R", "S", "T", "U", "V", "W", "X", "Y", "Z">>

UpperChar(c) ==
    IF c \in Range(LowerLetters)
    THEN UpperLetters[CHOOSE i \in DOMAIN LowerLetters : LowerLetters[i] = c]
    ELSE c

LowerChar(c) ==
    IF c \in Range(UpperLetters)
    THEN LowerLetters[CHOOSE i \in DOMAIN UpperLetters : UpperLetters[i] = c]
    ELSE c

str_unchanged(text) == text

\* str.upper() and str.lower()
str_upper(text) == [i \in DOMAIN text |-> UpperChar(text[i])]

str_lower(text) == [i \in DOMAIN text |-> LowerChar(text[i])]

\* A missing cell of a text column: pandas holds the float nan, which is not
\* a str and has no upper().
NaN == <<"NaN">>

IsStr(value) == value # NaN

\* An exception leaving a call.
Raised(exception) == [raised |-> exception]

IsRaised(result) == "raised" \in DOMAIN result

\* The role spellings the code compares position.upper() with.
GoaliePositions ==
    { <<"G">>,
      <<"G", "O", "A", "L", "I", "E">>,
      <<"G", "O", "A", "L", "K", "E", "E", "P", "E", "R">> }

DefensePositions ==
    { <<"D">>,
      <<"D", "E", "F", "E", "N", "S", "E">>,
      <<"D", "E", "F", "E", "N", "S", "E", "M", "A", "N">> }

ForwardPositions ==
    { <<"F">>,
      <<"F", "O", "R", "W", "A", "R", "D">> }

\* A prompt that does not name the player.
generate_player_prompt_anonymous(player_name, position, metrics) ==
    [player_name |-> <<>>,
     position |-> position,
     metrics |-> metrics,
     section |-> ""]

generate_player_prompt(player_name, position, metrics) ==
    [player_name |-> player_name,
     position |-> position,
     metrics |-> metrics,
     section |->
        IF str_upper(position) \in GoaliePositions THEN "Goalie-Specific Metrics"
        ELSE IF str_upper(position) \in DefensePositions THEN "Defenseman-Specific Metrics"
        ELSE IF str_upper(position) \in ForwardPositions THEN "Forward-Specific Metrics"
        ELSE ""]

\* The report dict built from what the capability returned.
generate_player_report(player_name, position, metrics, scouting_notes, score) ==
    [player_name |-> player_name,
     position |-> position,
     metrics |-> metrics,
     scouting_notes |-> scouting_notes,
     score |-> score,
     tier |-> score_to_tier(score)]

\* sorted(reports, key=score, reverse=True) is stable: an element goes
\* behind every element whose score is at least its own.
RECURSIVE InsertFlipTies(_, _, _)
InsertFlipTies(sorted, o, h) ==
    IF sorted = <<>> THEN <<o>>
    ELSE IF h[Head(sorted)].score > h[o].score
         THEN <<Head(sorted)>> \o InsertFlipTies(Tail(sorted), o, h)
         ELSE <<o>> \o sorted

RECURSIVE InsertDesc(_, _, _)
InsertDesc(sorted, o, h) ==
    IF sorted = <<>> THEN <<o>>
    ELSE IF h[Head(sorted)].score >= h[o].score
         THEN <<Head(sorted)>> \o InsertDesc(Tail(sorted), o, h)
         ELSE <<o>> \o sorted

RECURSIVE SortFromAsc(_, _, _)
SortFromAsc(done, reports, h) ==
    IF reports = <<>> THEN done
    ELSE LET o == Head(reports)
             before == SelectSeq(done, LAMBDA d : h[d].score <= h[o].score)
             after == SelectSeq(done, LAMBDA d : h[d].score > h[o].score)
         IN  SortFromAsc(before \o <<o>> \o after, Tail(reports), h)

\* sorted(reports, key=score) with reverse=True left out.
sorted_by_score_asc(reports, h) == SortFromAsc(<<>>, reports, h)

RECURSIVE SortFrom(_, _, _)
SortFrom(done, reports, h) ==
    IF reports = <<>> THEN done
    ELSE SortFrom(InsertDesc(done, Head(reports), h), Tail(reports), h)

sorted_by_score_desc(reports, h) == SortFrom(<<>>, reports, h)

\* Competition ranking: equal scores share the rank of the first of them.
RECURSIVE AssignRanksCompetition(_, _, _)
AssignRanksCompetition(h, sorted_reports, rank) ==
    IF rank > Len(sorted_reports) THEN h
    ELSE AssignRanksCompetition(
            [h EXCEPT ![sorted_reports[rank]] =
                Put(@, "rank",
                    1 + Cardinality({i \in DOMAIN sorted_reports :
                          h[sorted_reports[i]].score > h[sorted_reports[rank]].score}))],
            sorted_reports, rank + 1)

\* Ranks counted from the end of the list.
RECURSIVE AssignRanksFromLast(_, _, _)
AssignRanksFromLast(h, sorted_reports, rank) ==
    IF rank > Len(sorted_reports) THEN h
    ELSE AssignRanksFromLast(
            [h EXCEPT ![sorted_reports[rank]] =
                Put(@, "rank", Len(sorted_reports) + 1 - rank)],
            sorted_reports, rank + 1)

\* for rank, report in enumerate(sorted_reports, 1): report['rank'] = rank
RECURSIVE AssignRanks(_, _, _)
AssignRanks(h, sorted_reports, rank) ==
    IF rank > Len(sorted_reports) THEN h
    ELSE AssignRanks(
            [h EXCEPT ![sorted_reports[rank]] = Put(@, "rank", rank)],
            sorted_reports, rank + 1)

\* rank_players on copies of the reports: the ranks are written to new
\* dicts, which the returned list holds.
rank_players_on_copies(reports, h) ==
    LET sorted_reports == sorted_by_score_desc(reports, h)
    IN  [sorted_reports |-> [i \in DOMAIN sorted_reports |-> Len(h) + i],
         heap |-> h \o [i \in DOMAIN sorted_reports |->
                           Put(h[sorted_reports[i]], "rank", i)]]

\* rank_players: the returned list and the heap after the in-place update.
rank_players(reports, h) ==
    LET sorted_reports == sorted_by_score_desc(reports, h)
    IN  [sorted_reports |-> sorted_reports,
         heap |-> AssignRanks(h, sorted_reports, 1)]

\* tier_counts[tier] = 1 over the reports: the count is not accumulated.
RECURSIVE CountTiersOverwrite(_, _, _)
CountTiersOverwrite(tier_counts, ranked, h) ==
    IF ranked = <<>> THEN tier_counts
    ELSE CountTiersOverwrite(Put(tier_counts, h[Head(ranked)].tier, 1),
                             Tail(ranked), h)

\* tier_counts[tier] = tier_counts.get(tier, 0) + 1 over the reports
RECURSIVE CountTiers(_, _, _)
CountTiers(tier_counts, ranked, h) ==
    IF ranked = <<>> THEN tier_counts
    ELSE LET tier == h[Head(ranked)].tier
         IN  CountTiers(Put(tier_counts, tier, Get(tier_counts, tier, 0) + 1),
                        Tail(ranked), h)

RECURSIVE SumScores(_, _)
SumScores(ranked, h) ==
    IF ranked = <<>> THEN 0
    ELSE h[Head(ranked)].score + SumScores(Tail(ranked), h)

TopEntry(report) ==
    [rank |-> report.rank,
     name |-> report.player_name,
     position |-> report.position,
     score |-> report.score,
     tier |-> report.tier]

\* ranked_reports[-3:]
LastThree(ranked) == SubSeq(ranked, Max(1, Len(ranked) - 2), Len(ranked))

\* ranked_reports[:3]
FirstThree(ranked) == SubSeq(ranked, 1, Min(3, Len(ranked)))

\* generate_summary without its guard for the empty list: sum / len raises.
generate_summary_unguarded(ranked, h) ==
    IF ranked = <<>>
    THEN [raised |-> "ZeroDivisionError"]
    ELSE [total_players |-> Len(ranked),
          tier_distribution |-> CountTiers(<<>>, ranked, h),
          top_3_players |-> [i \in DOMAIN FirstThree(ranked) |->
                                TopEntry(h[FirstThree(ranked)[i]])],
          average_score |-> [num |-> SumScores(ranked, h), den |-> Len(ranked)]]

\* average_score is the quotient sum / len, kept as the fraction num / den.
generate_summary(ranked, h) ==
    IF ranked = <<>>
    THEN [total_players |-> 0,
          tier_distribution |-> <<>>,
          top_3_players |-> <<>>]
    ELSE [total_players |-> Len(ranked),
          tier_distribution |-> CountTiers(<<>>, ranked, h),
          top_3_players |-> [i \in DOMAIN FirstThree(ranked) |->
                                TopEntry(h[FirstThree(ranked)[i]])],
          average_score |-> [num |-> SumScores(ranked, h), den |-> Len(ranked)]]

\* json.dump of a list of report objects: the dicts the ids refer to.
json_reports(reports, h) == [i \in DOMAIN reports |-> h[reports[i]]]

save_reports_json_reports_key(ranked_reports_, summary_, h) ==
    [summary |-> summary_,
     reports |-> json_reports(ranked_reports_, h)]

\* The document save_reports_json writes to output_path.
save_reports_json(ranked_reports_, summary_, h) ==
    [summary |-> summary_,
     player_reports |-> json_reports(ranked_reports_, h)]

(***************************************************************************)
(* The report pipeline of test_report_generation (src/test_system.py) and  *)
(* of main (src/player_movement_scout.py): one report per row of the       *)
(* player list, then rank_players, then generate_summary.                  *)
(***************************************************************************)
Providers == LLMProviders \cup {"mock", "injected"}

\* Metrics handed to generate_player_report by the caller.
FixtureMetrics == [total_distance |-> 0, events_count |-> 5]

Row(player_name, position) ==
    [player_name |-> player_name, position |-> position, metrics |-> FixtureMetrics]

\* The five players of create_sample_data, in table order.
TestPlayers ==
    << Row(<<"Connor", "McDavid">>, <<"F">>),
       Row(<<"Auston", "Matthews">>, <<"F">>),
       Row(<<"Cale", "Makar">>, <<"D">>),
       Row(<<"Igor", "Shesterkin">>, <<"G">>),
       Row(<<"Nathan", "MacKinnon">>, <<"F">>) >>

PlayerRows == {Row(<<"Connor", "McDavid">>, <<"F">>), Row(<<"Jane", "Doe">>, <<"U", "n", "k", "n", "o", "w", "n">>)}

\* Answers of the remote model to a scoring prompt and to a report prompt.
ScoreTexts == {<<"9", "0">>, <<" ", "1", "5", "0">>, <<"n", "/", "a">>}

ReportTexts == {<<"o", "k", " ">>}

Replies(p, texts) ==
    {[kind |-> "ok", text |-> t] : t \in texts}
        \cup {[kind |-> k, text |-> <<>>] : k \in ReplyKinds(p) \ {"ok"}}

\* What an injected capability that is none of the above may return.
InjectedScores == {-5, 50, 70, 90, 150}

\* The values self.ai_provider.generate_score(prompt) may return.
ScoreResults(p, prompt) ==
    CASE p = "openai" ->
            {OpenAIProvider_generate_score(r) : r \in Replies(p, ScoreTexts)}
      [] p = "anthropic" ->
            {AnthropicProvider_generate_score(r) : r \in Replies(p, ScoreTexts)}
      [] p = "ollama" ->
            {OllamaProvider_generate_score(r) : r \in Replies(p, ScoreTexts)}
      [] p = "mock" -> {MockAIProvider_generate_score(prompt)}
      [] p = "injected" -> InjectedScores

\* The values self.ai_provider.generate_report(prompt) may return.
ReportResults(p, prompt) ==
    CASE p = "openai" ->
            {OpenAIProvider_generate_report(r) : r \in Replies(p, ReportTexts)}
      [] p = "anthropic" ->
            {AnthropicProvider_generate_report(r) : r \in Replies(p, ReportTexts)}
      [] p = "ollama" ->
            {OllamaProvider_generate_report(r) : r \in Replies(p, ReportTexts)}
      [] p = "mock" -> {MockAIProvider_generate_report(prompt)}
      [] p = "injected" -> {"injected notes"}

InitCall == op = "none" /\ arg = None /\ ret = None

InitPipe ==
    /\ idx = 0
    /\ heap = <<>>
    /\ all_reports = <<>>
    /\ ranked_reports = <<>>
    /\ summary = None
    /\ output_file = None
    /\ calls = <<>>
    /\ locals = None
    /\ pc = "loop"

Init ==
    /\ provider \in Providers
    /\ players \in SeqsUpTo(PlayerRows,
                            IF provider \in LLMProviders THEN MaxLLMBatch ELSE MaxBatch)
    /\ InitPipe
    /\ InitCall

\* Permutations of the five test players: the order of the table's rows.
InitE2E ==
    /\ provider = "mock"
    /\ players \in {q \in [1..Len(TestPlayers) -> Range(TestPlayers)] :
                        Range(q) = Range(TestPlayers)}
    /\ InitPipe
    /\ InitCall

\* One iteration of the player loop: generate_player_report and append.
GeneratePlayerReport ==
    /\ pc = "loop"
    /\ idx < Len(players)
    /\ LET row == players[idx + 1]
           prompt == generate_player_prompt(row.player_name, row.position, row.metrics)
       IN  \E scouting_notes \in ReportResults(provider, prompt) :
           \E score \in ScoreResults(provider, prompt) :
              /\ heap' = Append(heap,
                    generate_player_report(row.player_name, row.position,
                                           row.metrics, scouting_notes, score))
              /\ all_reports' = Append(all_reports, Len(heap) + 1)
    /\ idx' = idx + 1
    /\ UNCHANGED <<provider, players, ranked_reports, summary, output_file, pc>>
    /\ UNCHANGED <<calls, locals>>
    /\ UNCHANGED callVars

\* ranked_reports = report_gen.rank_players(all_reports)
RankPlayers ==
    /\ pc = "loop"
    /\ idx = Len(players)
    /\ LET r == rank_players(all_reports, heap)
       IN  /\ ranked_reports' = r.sorted_reports
           /\ heap' = r.heap
    /\ pc' = "ranked"
    /\ UNCHANGED <<provider, players, idx, all_reports, summary, output_file>>
    /\ UNCHANGED <<calls, locals>>
    /\ UNCHANGED callVars

\* summary = report_gen.generate_summary(ranked_reports)
GenerateSummary ==
    /\ pc = "ranked"
    /\ summary' = generate_summary(ranked_reports, heap)
    /\ pc' = "summarized"
    /\ UNCHANGED <<provider, players, idx, heap, all_reports, ranked_reports,
                   output_file, calls, locals>>
    /\ UNCHANGED callVars

\* report_gen.save_reports_json(ranked_reports, summary, output_path)
SaveReportsJson ==
    /\ pc = "summarized"
    /\ output_file' = save_reports_json(ranked_reports, summary, heap)
    /\ pc' = "saved"
    /\ UNCHANGED <<provider, players, idx, heap, all_reports, ranked_reports,
                   summary, calls, locals>>
    /\ UNCHANGED callVars

Next == GeneratePlayerReport \/ RankPlayers \/ GenerateSummary \/ SaveReportsJson

Spec == Init /\ [][Next]_vars

SpecE2E == InitE2E /\ [][Next]_vars

(***************************************************************************)
(* Single calls of the pure functions: arg is the input, ret the result.   *)
(* While they run the pipeline does not exist.                             *)
(***************************************************************************)
NoPipe ==
    /\ provider = None
    /\ players = <<>>
    /\ idx = 0
    /\ heap = <<>>
    /\ all_reports = <<>>
    /\ ranked_reports = <<>>
    /\ summary = None
    /\ output_file = None
    /\ calls = <<>>
    /\ locals = None
    /\ pc = "none"

\* ---- _score_to_tier on one score
InitTier ==
    /\ NoPipe
    /\ op = "none"
    /\ arg \in (0 - TierProbe)..(100 + TierProbe)
    /\ ret = None

Call_score_to_tier ==
    /\ op = "none"
    /\ op' = "_score_to_tier"
    /\ ret' = score_to_tier(arg)
    /\ UNCHANGED <<arg>>
    /\ UNCHANGED pipeVars

SpecTier == InitTier /\ [][Call_score_to_tier]_vars

\* ---- generate_score of a provider on one reply of the remote model
Alphabet == {"0", "1", "5", "9", " ", "-", "a"}

InitScore ==
    /\ NoPipe
    /\ op = "none"
    /\ arg \in {[provider |-> p, reply |-> r] :
                    p \in LLMProviders,
                    r \in [kind : {"ok", "exception", "status", "connection"},
                           text : SeqsUpTo(Alphabet, MaxTextLen)]}
    /\ arg.reply \in Replies(arg.provider, SeqsUpTo(Alphabet, MaxTextLen))
    /\ ret = None

Call_generate_score ==
    /\ op = "none"
    /\ op' = "generate_score"
    /\ ret' = CASE arg.provider = "openai" -> OpenAIProvider_generate_score(arg.reply)
                [] arg.provider = "anthropic" -> AnthropicProvider_generate_score(arg.reply)
                [] arg.provider = "ollama" -> OllamaProvider_generate_score(arg.reply)
    /\ UNCHANGED <<arg>>
    /\ UNCHANGED pipeVars

SpecScore == InitScore /\ [][Call_generate_score]_vars

(***************************************************************************)
(* Column resolution: MovementMetrics._find_column and the id-column loop  *)
(* of BDCDataLoader.get_player_events / get_player_tracking.               *)
(* A table's columns are a sequence of names, in table order.              *)
(***************************************************************************)
X_NAMES == <<"x", "x_coord", "x_position">>

Y_NAMES == <<"y", "y_coord", "y_position">>

TIME_NAMES == <<"time", "timestamp", "frame", "game_time">>

EVENT_NAMES == <<"event", "event_type", "type">>

ID_NAMES == <<"player_id", "playerId", "id">>

\* for name in names: if name in columns: return name -- else default
RECURSIVE FirstPresent(_, _, _)
FirstPresent(names, columns, default) ==
    IF names = <<>> THEN default
    ELSE IF Head(names) \in Range(columns) THEN Head(names)
    ELSE FirstPresent(Tail(names), columns, default)

\* The same loop run over the table's columns instead of the candidates.
RECURSIVE find_column_table_order(_, _)
find_column_table_order(columns, possible_names) ==
    IF columns = <<>> THEN ""
    ELSE IF Head(columns) \in Range(possible_names) THEN Head(columns)
    ELSE find_column_table_order(Tail(columns), possible_names)

find_column(columns, possible_names) == FirstPresent(possible_names, columns, "")

\* id_col of get_player_events: None when no candidate is a column.
loader_id_col(columns) == FirstPresent(ID_NAMES, columns, None)

ColumnUniverse == {"player_id", "playerId", "id", "x", "x_coord", "y", "time"}

\* Tables of up to MaxCols distinct columns, in every column order.
InitSchema ==
    /\ NoPipe
    /\ op = "none"
    /\ arg \in {[columns |-> c] : c \in {q \in SeqsUpTo(ColumnUniverse, MaxCols) :
                                            Cardinality(Range(q)) = Len(q)}}
    /\ ret = None

Call_find_column ==
    /\ op = "none"
    /\ \E possible_names \in {X_NAMES, Y_NAMES, TIME_NAMES, EVENT_NAMES, ID_NAMES} :
          /\ arg' = [columns |-> arg.columns, possible_names |-> possible_names]
          /\ ret' = find_column(arg.columns, possible_names)
    /\ op' = "_find_column"
    /\ UNCHANGED pipeVars

Call_loader_id_col ==
    /\ op = "none"
    /\ arg' = [columns |-> arg.columns, possible_names |-> ID_NAMES]
    /\ ret' = loader_id_col(arg.columns)
    /\ op' = "get_player_events"
    /\ UNCHANGED pipeVars

NextSchema == Call_find_column \/ Call_loader_id_col

SpecSchema == InitSchema /\ [][NextSchema]_vars

(***************************************************************************)
(* MovementMetrics: src/src/metrics/movement.py.                           *)
(* A DataFrame is [columns, rows]; a row maps each column to its value.    *)
(* Coordinates and times are whole numbers; distances are fixed-point,     *)
(* in steps of 1/Scale.                                                    *)
(***************************************************************************)
\* floor(sqrt(n)), by bisection on lo <= root < hi.
RECURSIVE SqrtBetween(_, _, _)
SqrtBetween(n, lo, hi) ==
    IF hi - lo <= 1 THEN lo
    ELSE LET mid == (lo + hi) \div 2
         IN  IF mid * mid <= n THEN SqrtBetween(n, mid, hi)
             ELSE SqrtBetween(n, lo, mid)

\* np.sqrt of a whole number, to the fixed-point resolution.
np_sqrt(n) == SqrtBetween(n * Scale * Scale, 0, n * Scale + 1)

calculate_distance(x1, y1, x2, y2) ==
    np_sqrt((x2 - x1) * (x2 - x1) + (y2 - y1) * (y2 - y1))

\* DataFrame.sort_values(col): the default sort (kind='quicksort') is not
\* stable, so rows with equal keys may come out in any order: the set of
\* possible results.  Which order comes out is fixed by the sort of the build
\* in use; a specification that makes several calls names it in arg.ties
\* ("kept": equal keys stay in input order, "reversed": they are turned round).
sort_values(rows, col) ==
    LET orders == {q \in [DOMAIN rows -> DOMAIN rows] :
                     /\ \A i, j \in DOMAIN rows : i # j => q[i] # q[j]
                     /\ \A i, j \in DOMAIN rows :
                            i < j => rows[q[i]][col] <= rows[q[j]][col]}
    IN  {[i \in DOMAIN rows |-> rows[q[i]]] :
            q \in IF "ties" \in DOMAIN arg
                  THEN {q \in orders :
                          \A i, j \in DOMAIN rows :
                              (i < j /\ rows[q[i]][col] = rows[q[j]][col]) =>
                                  IF arg.ties = "kept" THEN q[i] < q[j] ELSE q[i] > q[j]}
                  ELSE orders}

\* sum of calculate_distance over consecutive rows
RECURSIVE PathLength(_, _, _)
PathLength(rows, x_col, y_col) ==
    IF Len(rows) < 2 THEN 0
    ELSE calculate_distance(rows[1][x_col], rows[1][y_col],
                            rows[2][x_col], rows[2][y_col])
         + PathLength(Tail(rows), x_col, y_col)

\* calculate_total_distance without the sort by time.
calculate_total_distance_unsorted(tracking_df) ==
    IF Len(tracking_df.rows) < 2 THEN {0}
    ELSE LET x_col == find_column(tracking_df.columns, X_NAMES)
             y_col == find_column(tracking_df.columns, Y_NAMES)
         IN  IF x_col = "" \/ y_col = "" THEN {0}
             ELSE {PathLength(tracking_df.rows, x_col, y_col)}

\* The sum of the absolute steps of a path along one axis, fixed-point.
RECURSIVE AxisLength(_, _)
AxisLength(rows, col) ==
    IF Len(rows) < 2 THEN 0
    ELSE LET d == rows[2][col] - rows[1][col]
         IN  (IF d < 0 THEN -d ELSE d) * Scale + AxisLength(Tail(rows), col)

calculate_total_distance_one_axis(tracking_df) ==
    IF Len(tracking_df.rows) < 2 THEN {0}
    ELSE LET x_col == find_column(tracking_df.columns, X_NAMES)
             y_col == find_column(tracking_df.columns, Y_NAMES)
             time_col == find_column(tracking_df.columns, TIME_NAMES)
         IN  IF x_col = "" /\ y_col = "" THEN {0}
             ELSE { IF x_col = "" THEN AxisLength(sorted, y_col)
                    ELSE IF y_col = "" THEN AxisLength(sorted, x_col)
                    ELSE PathLength(sorted, x_col, y_col) :
                      sorted \in IF time_col # ""
                                 THEN sort_values(tracking_df.rows, time_col)
                                 ELSE {tracking_df.rows} }

\* The values calculate_total_distance may return (one per order of ties).
calculate_total_distance(tracking_df) ==
    IF Len(tracking_df.rows) < 2 THEN {0}
    ELSE LET x_col == find_column(tracking_df.columns, X_NAMES)
             y_col == find_column(tracking_df.columns, Y_NAMES)
             time_col == find_column(tracking_df.columns, TIME_NAMES)
         IN  IF x_col = "" \/ y_col = "" THEN {0}
             ELSE {PathLength(sorted, x_col, y_col) :
                      sorted \in IF time_col # ""
                                 THEN sort_values(tracking_df.rows, time_col)
                                 ELSE {tracking_df.rows}}

\* ---- tracking tables of one player
Points == {<<0, 0>>, <<3, 4>>, <<3, 0>>}

Samples == [t : 0..MaxTime, p : Points]

\* Column layouts: the plain one, one of aliases, and ones lacking a field.
Layouts ==
    { <<"time", "x", "y">>,
      <<"y_coord", "timestamp", "x_position">>,
      <<"x", "y">>,
      <<"time", "y">>,
      <<"frame", "x_coord">> }

\* The value a sample has in a column.
Cell(sample, col) ==
    IF col \in Range(X_NAMES) THEN sample.p[1]
    ELSE IF col \in Range(Y_NAMES) THEN sample.p[2]
    ELSE sample.t

DataFrame(layout, samples) ==
    [columns |-> layout,
     rows |-> [i \in DOMAIN samples |-> [c \in Range(layout) |-> Cell(samples[i], c)]]]

TrackingFrames ==
    {DataFrame(layout, samples) :
        layout \in Layouts, samples \in SeqsUpTo(Samples, MaxSamples)}

InitDistance ==
    /\ NoPipe
    /\ op = "none"
    /\ arg \in TrackingFrames
    /\ ret = None

Call_calculate_total_distance ==
    /\ op = "none"
    /\ op' = "calculate_total_distance"
    /\ ret' \in calculate_total_distance(arg)
    /\ UNCHANGED <<arg>>
    /\ UNCHANGED pipeVars

SpecDistance == InitDistance /\ [][Call_calculate_total_distance]_vars

(***************************************************************************)
(* Speeds and direction changes of MovementMetrics.  A speed is the exact  *)
(* quotient of a fixed-point distance and a whole duration, kept as a      *)
(* fraction in lowest terms so that equal speeds are equal values.         *)
(***************************************************************************)
RECURSIVE GCD(_, _)
GCD(a, b) == IF b = 0 THEN a ELSE GCD(b, a % b)

\* Python's distance / duration for distance >= 0 and duration > 0.
Divide(distance, duration) ==
    LET g == GCD(distance, duration)
    IN  [num |-> distance \div g, den |-> duration \div g]

\* The float 0.0 as a speed.
Zero == [num |-> 0, den |-> 1]

FracLeq(a, b) == a.num * b.den <= b.num * a.den

\* max() and min() of a non-empty collection of speeds.
FracMax(S) == CHOOSE a \in S : \A b \in S : FracLeq(b, a)

FracMin(S) == CHOOSE a \in S : \A b \in S : FracLeq(a, b)

\* time_values[-1] - time_values[0] of the rows in the given order.
TimeSpan(rows, time_col) == rows[Len(rows)][time_col] - rows[1][time_col]

calculate_average_speed_input_order(tracking_df) ==
    IF Len(tracking_df.rows) < 2 THEN {Zero}
    ELSE LET time_col == find_column(tracking_df.columns, TIME_NAMES)
         IN  { IF time_col # "" /\ TimeSpan(tracking_df.rows, time_col) > 0
               THEN Divide(total_distance, TimeSpan(tracking_df.rows, time_col))
               ELSE Zero :
                 total_distance \in calculate_total_distance(tracking_df) }

\* The possible results of calculate_average_speed: the distance comes from
\* calculate_total_distance, the duration from the function's own sort.
calculate_average_speed(tracking_df) ==
    IF Len(tracking_df.rows) < 2 THEN {Zero}
    ELSE LET time_col == find_column(tracking_df.columns, TIME_NAMES)
         IN  { IF time_col # "" /\ TimeSpan(tracking_df_sorted, time_col) > 0
               THEN Divide(total_distance, TimeSpan(tracking_df_sorted, time_col))
               ELSE Zero :
                 total_distance \in calculate_total_distance(tracking_df),
                 tracking_df_sorted \in
                     IF time_col # ""
                     THEN sort_values(tracking_df.rows, time_col)
                     ELSE {tracking_df.rows} }

\* The list speeds of calculate_max_speed, as the set of its elements.
SegmentSpeeds(rows, x_col, y_col, time_col) ==
    { Divide(calculate_distance(rows[i - 1][x_col], rows[i - 1][y_col],
                                rows[i][x_col], rows[i][y_col]),
             rows[i][time_col] - rows[i - 1][time_col]) :
        i \in {k \in 2..Len(rows) : rows[k][time_col] - rows[k - 1][time_col] > 0} }

calculate_max_speed_slowest(tracking_df) ==
    IF Len(tracking_df.rows) < 2 THEN {Zero}
    ELSE LET x_col == find_column(tracking_df.columns, X_NAMES)
             y_col == find_column(tracking_df.columns, Y_NAMES)
             time_col == find_column(tracking_df.columns, TIME_NAMES)
         IN  IF x_col = "" \/ y_col = "" \/ time_col = "" THEN {Zero}
             ELSE { LET speeds == SegmentSpeeds(sorted, x_col, y_col, time_col)
                    IN  IF speeds # {} THEN FracMin(speeds) ELSE Zero :
                      sorted \in sort_values(tracking_df.rows, time_col) }

\* The possible results of calculate_max_speed.
calculate_max_speed(tracking_df) ==
    IF Len(tracking_df.rows) < 2 THEN {Zero}
    ELSE LET x_col == find_column(tracking_df.columns, X_NAMES)
             y_col == find_column(tracking_df.columns, Y_NAMES)
             time_col == find_column(tracking_df.columns, TIME_NAMES)
         IN  IF x_col = "" \/ y_col = "" \/ time_col = "" THEN {Zero}
             ELSE { LET speeds == SegmentSpeeds(sorted, x_col, y_col, time_col)
                    IN  IF speeds # {} THEN FracMax(speeds) ELSE Zero :
                      sorted \in sort_values(tracking_df.rows, time_col) }

\* threshold: float = 45.0
DefaultThreshold == 45

\* Thresholds in degrees whose cosine has a rational square, and at which
\* the rounding of the float computation decides no comparison made here.
Thresholds == {30, 45, 90, 135}

\* cos(threshold)^2 as <<numerator, denominator>>.
CosSquared(threshold) ==
    CASE threshold = 30 -> <<3, 4>>
      [] threshold = 45 -> <<1, 2>>
      [] threshold = 90 -> <<0, 1>>
      [] threshold = 135 -> <<1, 2>>

np_dot(v1, v2) == v1[1] * v2[1] + v1[2] * v2[2]

\* degrees(arccos(cos_angle)) > threshold and >= threshold, for
\* cos_angle = dot(v1, v2) / (|v1| |v2|) of two non-zero vectors: arccos
\* falls as its argument grows, so the angle is compared through its cosine,
\* and the cosines through their signs and squares.
angle_exceeds(v1, v2, threshold) ==
    LET dot == np_dot(v1, v2)
        nn == np_dot(v1, v1) * np_dot(v2, v2)
        c == CosSquared(threshold)
    IN  IF threshold <= 90
        THEN dot < 0 \/ dot * dot * c[2] < c[1] * nn
        ELSE dot < 0 /\ dot * dot * c[2] > c[1] * nn

angle_at_least(v1, v2, threshold) ==
    LET dot == np_dot(v1, v2)
        nn == np_dot(v1, v1) * np_dot(v2, v2)
        c == CosSquared(threshold)
    IN  IF threshold <= 90
        THEN dot <= 0 \/ dot * dot * c[2] <= c[1] * nn
        ELSE dot < 0 /\ dot * dot * c[2] >= c[1] * nn

\* The loop of calculate_direction_changes from index i (1-based) on.
RECURSIVE CountTurns(_, _, _, _, _)
CountTurns(rows, x_col, y_col, threshold, i) ==
    IF i > Len(rows) THEN 0
    ELSE LET v1 == <<rows[i - 1][x_col] - rows[i - 2][x_col],
                     rows[i - 1][y_col] - rows[i - 2][y_col]>>
             v2 == <<rows[i][x_col] - rows[i - 1][x_col],
                     rows[i][y_col] - rows[i - 1][y_col]>>
         IN  (IF /\ np_dot(v1, v1) > 0
                 /\ np_dot(v2, v2) > 0
                 /\ angle_at_least(v1, v2, threshold)
              THEN 1 ELSE 0)
             + CountTurns(rows, x_col, y_col, threshold, i + 1)

\* The possible results of calculate_direction_changes.
calculate_direction_changes(tracking_df, threshold) ==
    IF Len(tracking_df.rows) < 3 THEN {0}
    ELSE LET x_col == find_column(tracking_df.columns, X_NAMES)
             y_col == find_column(tracking_df.columns, Y_NAMES)
             time_col == find_column(tracking_df.columns, TIME_NAMES)
         IN  IF x_col = "" \/ y_col = "" THEN {0}
             ELSE { CountTurns(sorted, x_col, y_col, threshold, 3) :
                      sorted \in IF time_col # ""
                                 THEN sort_values(tracking_df.rows, time_col)
                                 ELSE {tracking_df.rows} }

\* ---- the kinematic functions on one tracking table
KinematicLayouts ==
    { <<"time", "x", "y">>,
      <<"x", "y">>,
      <<"time", "y">>,
      <<"frame", "x_coord">>,
      <<"y_coord">> }

KinematicFrames ==
    {DataFrame(layout, samples) :
        layout \in KinematicLayouts, samples \in SeqsUpTo(Samples, MaxSamples)}

InitKinematics ==
    /\ NoPipe
    /\ op = "none"
    /\ arg \in KinematicFrames
    /\ ret = None

Call_calculate_average_speed ==
    /\ op = "none"
    /\ op' = "calculate_average_speed"
    /\ ret' \in calculate_average_speed(arg)
    /\ UNCHANGED <<arg>>
    /\ UNCHANGED pipeVars

Call_calculate_max_speed ==
    /\ op = "none"
    /\ op' = "calculate_max_speed"
    /\ ret' \in calculate_max_speed(arg)
    /\ UNCHANGED <<arg>>
    /\ UNCHANGED pipeVars

\* calculate_direction_changes(tracking_df): the threshold is the default.
Call_calculate_direction_changes ==
    /\ op = "none"
    /\ op' = "calculate_direction_changes"
    /\ arg' = [tracking_df |-> arg, threshold |-> DefaultThreshold]
    /\ ret' \in calculate_direction_changes(arg, DefaultThreshold)
    /\ UNCHANGED pipeVars

NextKinematics ==
    \/ Call_calculate_total_distance
    \/ Call_calculate_average_speed
    \/ Call_calculate_max_speed
    \/ Call_calculate_direction_changes

SpecKinematics == InitKinematics /\ [][NextKinematics]_vars

\* ---- calculate_direction_changes with a threshold of the caller
TurnPoints == {<<0, 0>>, <<1, 0>>, <<2, 0>>, <<2, 1>>}

TurnTimes == {0, 1, 2}

TurnSamples == [t : TurnTimes, p : TurnPoints]

TurnFrames ==
    {DataFrame(layout, samples) :
        layout \in {<<"time", "x", "y">>, <<"x", "y">>},
        samples \in SeqsUpTo(TurnSamples, MaxSamples)}

InitTurns ==
    /\ NoPipe
    /\ op = "none"
    /\ arg \in TurnFrames
    /\ ret = None

Call_calculate_direction_changes_threshold ==
    /\ op = "none"
    /\ \E threshold \in Thresholds :
          /\ op' = "calculate_direction_changes"
          /\ arg' = [tracking_df |-> arg, threshold |-> threshold]
          /\ ret' \in calculate_direction_changes(arg, threshold)
    /\ UNCHANGED pipeVars

SpecTurns == InitTurns /\ [][Call_calculate_direction_changes_threshold]_vars

(***************************************************************************)
(* MovementMetrics.calculate_all_metrics and the role-specific metrics.    *)
(***************************************************************************)
\* sub occurs in text
str_contains(text, sub) ==
    \E k \in 0..(Len(text) - Len(sub)) :
        \A i \in DOMAIN sub : text[k + i] = sub[i]

\* puck_events = ['carry', 'possession', 'puck_carry', 'controlled']
puck_events ==
    << <<"c", "a", "r", "r", "y">>,
       <<"p", "o", "s", "s", "e", "s", "s", "i", "o", "n">>,
       <<"p", "u", "c", "k", "_", "c", "a", "r", "r", "y">>,
       <<"c", "o", "n", "t", "r", "o", "l", "l", "e", "d">> >>

calculate_on_puck_distance(tracking_df, event_df) ==
    IF Len(event_df.rows) = 0 THEN 0
    ELSE LET event_type_col == find_column(event_df.columns, EVENT_NAMES)
         IN  IF event_type_col = "" THEN 0
             ELSE LET puck_df ==
                          {i \in DOMAIN event_df.rows :
                              \E e \in Range(puck_events) :
                                  str_contains(str_lower(event_df.rows[i][event_type_col]), e)}
                  IN  Cardinality(puck_df) * 10 * Scale

calculate_space_creation(tracking_df, all_tracking) == 15 * Scale

calculate_goalie_crease_movement(tracking_df) == 5 * Scale

\* The x steps are summed over the rows as they come: there is no sort.
calculate_lateral_movement(tracking_df) ==
    IF Len(tracking_df.rows) < 2 THEN 0
    ELSE LET x_col == find_column(tracking_df.columns, X_NAMES)
         IN  IF x_col = "" THEN 0
             ELSE AxisLength(tracking_df.rows, x_col)

calculate_gap_control(tracking_df) == 8 * Scale

\* 0.3
calculate_high_danger_positioning(tracking_df) == (3 * Scale) \div 10

\* A dict without keys.
EmptyDict == [k \in {} |-> 0]

role_metrics_else_forward(tracking_df, position) ==
    IF str_upper(position) \in GoaliePositions
    THEN [crease_movement |-> calculate_goalie_crease_movement(tracking_df),
          lateral_movement |-> calculate_lateral_movement(tracking_df)]
    ELSE IF str_upper(position) \in DefensePositions
    THEN [gap_control |-> calculate_gap_control(tracking_df)]
    ELSE [high_danger_positioning |-> calculate_high_danger_positioning(tracking_df)]

\* The keys the position-specific branches of calculate_all_metrics add.
role_metrics(tracking_df, position) ==
    IF str_upper(position) \in GoaliePositions
    THEN [crease_movement |-> calculate_goalie_crease_movement(tracking_df),
          lateral_movement |-> calculate_lateral_movement(tracking_df)]
    ELSE IF str_upper(position) \in DefensePositions
    THEN [gap_control |-> calculate_gap_control(tracking_df)]
    ELSE IF str_upper(position) \in ForwardPositions
    THEN [high_danger_positioning |-> calculate_high_danger_positioning(tracking_df)]
    ELSE EmptyDict

\* The possible results of calculate_all_metrics: the metrics dict, or the
\* AttributeError of position.upper() on a position that is not a str.
calculate_all_metrics(tracking_df, event_df, position) ==
    IF ~IsStr(position) THEN {Raised("AttributeError")}
    ELSE
    { role_metrics(tracking_df, position) @@
      [total_distance |-> total_distance,
       average_speed |-> average_speed,
       max_speed |-> max_speed,
       direction_changes |-> direction_changes,
       on_puck_distance |-> calculate_on_puck_distance(tracking_df, event_df),
       space_creation |-> calculate_space_creation(tracking_df, <<>>),
       events_count |-> Len(event_df.rows)] :
        total_distance \in calculate_total_distance(tracking_df),
        average_speed \in calculate_average_speed(tracking_df),
        max_speed \in calculate_max_speed(tracking_df),
        direction_changes \in calculate_direction_changes(tracking_df, DefaultThreshold) }

\* ---- calculate_all_metrics on the data of one player
MaxEvents == 2

EventTypes ==
    { <<"C", "a", "r", "r", "y">>,
      <<"s", "h", "o", "t">> }

\* Event tables with and without an event-type column.
EventFrames ==
    { [columns |-> layout,
       rows |-> [i \in DOMAIN events |-> [c \in Range(layout) |-> events[i]]]] :
        layout \in {<<"event">>, <<"detail">>},
        events \in SeqsUpTo(EventTypes, MaxEvents) }

\* All spellings of a word in upper and lower case letters.
RECURSIVE Casings(_)
Casings(word) ==
    IF word = <<>> THEN {<<>>}
    ELSE {<<c>> \o rest :
             c \in {word[1], UpperChar(word[1])}, rest \in Casings(Tail(word))}

\* The role names and position codes, and two strings that are neither.
PositionWords ==
    { <<"g">>, <<"d">>, <<"f">>, <<"c">>,
      <<"g", "o", "a", "l", "i", "e">>,
      <<"d", "e", "f", "e", "n", "s", "e">>,
      <<"d", "e", "f", "e", "n", "d", "e", "r">>,
      <<"f", "o", "r", "w", "a", "r", "d">>,
      <<"u", "n", "k", "n", "o", "w", "n">> }

LongPositions ==
    { <<"g", "o", "a", "l", "k", "e", "e", "p", "e", "r">>,
      <<"G", "o", "a", "l", "k", "e", "e", "p", "e", "r">>,
      <<"d", "e", "f", "e", "n", "s", "e", "m", "a", "n">>,
      <<"D", "e", "f", "e", "n", "s", "e", "m", "a", "n">> }

Positions ==
    UNION {Casings(word) : word \in PositionWords} \cup LongPositions \cup {<<>>}

RoleFrames ==
    { DataFrame(<<"time", "x", "y">>,
                << [t |-> 0, p |-> <<0, 0>>],
                   [t |-> 1, p |-> <<3, 4>>],
                   [t |-> 2, p |-> <<3, 0>>] >>),
      DataFrame(<<"time", "x", "y">>, <<>>) }

InitRoles ==
    /\ NoPipe
    /\ op = "none"
    /\ arg \in [tracking_df : RoleFrames, event_df : EventFrames, position : Positions]
    /\ ret = None

Call_calculate_all_metrics ==
    /\ op = "none"
    /\ op' = "calculate_all_metrics"
    /\ ret' \in calculate_all_metrics(arg.tracking_df, arg.event_df, arg.position)
    /\ UNCHANGED <<arg>>
    /\ UNCHANGED pipeVars

SpecRoles == InitRoles /\ [][Call_calculate_all_metrics]_vars

\* ---- calculate_all_metrics on a table and on the same rows reordered
OrderPoints == {<<0, 0>>, <<3, 4>>}

OrderFrames ==
    {DataFrame(<<"time", "x", "y">>, samples) :
        samples \in SeqsUpTo([t : 0..MaxTime, p : OrderPoints], MaxSamples)}

InitOrder ==
    /\ NoPipe
    /\ op = "none"
    /\ arg \in [tracking_df : OrderFrames,
                event_df : {[columns |-> <<"event">>, rows |-> <<>>]},
                position : {<<"G">>, <<"D">>, <<"F">>}]
    /\ ret = None

\* The rows of a table in the order q.
Reordered(df, q) ==
    [columns |-> df.columns, rows |-> [i \in DOMAIN df.rows |-> df.rows[q[i]]]]

RowOrders(n) ==
    {q \in [1..n -> 1..n] : \A i, j \in 1..n : i # j => q[i] # q[j]}

\* A second call, on the same rows in another order; ret keeps both results.
Call_calculate_all_metrics_reordered ==
    /\ op = "calculate_all_metrics"
    /\ op' = "calculate_all_metrics_reordered"
    /\ \E q \in RowOrders(Len(arg.tracking_df.rows)) :
          LET reordered == Reordered(arg.tracking_df, q)
          IN  /\ arg' = [arg EXCEPT !.tracking_df = reordered]
              /\ \E again \in calculate_all_metrics(reordered, arg.event_df, arg.position) :
                    ret' = [first |-> ret, second |-> again]
    /\ UNCHANGED pipeVars

NextOrder ==
    \/ Call_calculate_all_metrics
    \/ Call_calculate_all_metrics_reordered

SpecOrder == InitOrder /\ [][NextOrder]_vars

(***************************************************************************)
(* generate_player_report statement by statement: the prompt is built,     *)
(* generate_report is called, generate_score is called, the tier is        *)
(* computed and the dict returned to the loop, which appends it.  Each     *)
(* call on the capability is logged in calls with the reply of the remote  *)
(* service and the value the capability returned.                          *)
(***************************************************************************)
\* self.ai_provider.generate_report(prompt), given the reply of the service.
ai_provider_generate_report(p, prompt, reply) ==
    CASE p = "openai" -> OpenAIProvider_generate_report(reply)
      [] p = "anthropic" -> AnthropicProvider_generate_report(reply)
      [] p = "ollama" -> OllamaProvider_generate_report(reply)
      [] p = "mock" -> MockAIProvider_generate_report(prompt)

\* self.ai_provider.generate_score(prompt), given the reply of the service.
ai_provider_generate_score(p, prompt, reply) ==
    CASE p = "openai" -> OpenAIProvider_generate_score(reply)
      [] p = "anthropic" -> AnthropicProvider_generate_score(reply)
      [] p = "ollama" -> OllamaProvider_generate_score(reply)
      [] p = "mock" -> MockAIProvider_generate_score(prompt)

\* Replies of the service to the capability; the mock calls no service.
ServiceReplies(p, texts) ==
    IF p = "mock" THEN {[kind |-> "ok", text |-> <<>>]} ELSE Replies(p, texts)

CallScoreTexts == {<<"9", "0">>}

InitCalls ==
    /\ provider \in LLMProviders \cup {"mock"}
    /\ players \in SeqsUpTo(PlayerRows, MaxLLMBatch)
    /\ InitPipe
    /\ InitCall

\* prompt = self.generate_player_prompt(...);
\* scouting_notes = self.ai_provider.generate_report(prompt)
CallGenerateReport ==
    /\ pc = "loop"
    /\ idx < Len(players)
    /\ LET row == players[idx + 1]
           prompt == generate_player_prompt(row.player_name, row.position, row.metrics)
       IN  \E reply \in ServiceReplies(provider, ReportTexts) :
              LET scouting_notes == ai_provider_generate_report(provider, prompt, reply)
              IN  /\ calls' = Append(calls, [method |-> "generate_report",
                                              prompt |-> prompt,
                                              reply |-> reply.kind,
                                              result |-> scouting_notes])
                  /\ locals' = [player_name |-> row.player_name,
                                position |-> row.position,
                                metrics |-> row.metrics,
                                prompt |-> prompt,
                                scouting_notes |-> scouting_notes]
    /\ pc' = "generate_report returned"
    /\ UNCHANGED <<provider, players, idx, heap, all_reports, ranked_reports,
                   summary, output_file>>
    /\ UNCHANGED callVars

\* score = self.ai_provider.generate_score(prompt)
CallGenerateScore ==
    /\ pc = "generate_report returned"
    /\ \E reply \in ServiceReplies(provider, CallScoreTexts) :
          LET score == ai_provider_generate_score(provider, locals.prompt, reply)
          IN  /\ calls' = Append(calls, [method |-> "generate_score",
                                          prompt |-> locals.prompt,
                                          reply |-> reply.kind,
                                          result |-> score])
              /\ locals' = Put(locals, "score", score)
    /\ pc' = "generate_score returned"
    /\ UNCHANGED <<provider, players, idx, heap, all_reports, ranked_reports,
                   summary, output_file>>
    /\ UNCHANGED callVars

\* tier = self._score_to_tier(score); return {...}; all_reports.append(report)
ReturnPlayerReport ==
    /\ pc = "generate_score returned"
    /\ heap' = Append(heap,
                      generate_player_report(locals.player_name, locals.position,
                                             locals.metrics, locals.scouting_notes,
                                             locals.score))
    /\ all_reports' = Append(all_reports, Len(heap) + 1)
    /\ idx' = idx + 1
    /\ locals' = None
    /\ pc' = "loop"
    /\ UNCHANGED <<provider, players, ranked_reports, summary, output_file, calls>>
    /\ UNCHANGED callVars

NextCalls ==
    \/ CallGenerateReport
    \/ CallGenerateScore
    \/ ReturnPlayerReport
    \/ RankPlayers

SpecCalls == InitCalls /\ [][NextCalls]_vars

(***************************************************************************)
(* main() of src/player_movement_scout.py on the tables of BDCDataLoader:  *)
(* the players list, the threshold on a player's events, the metrics and   *)
(* report of each remaining player, then ranking, summary and output.      *)
(***************************************************************************)
\* potential_name_cols, potential_pos_cols, potential_team_cols
PLAYER_NAME_NAMES == <<"player_name", "playerName", "name", "player">>

POSITION_NAMES == <<"position", "pos", "player_position">>

TEAM_NAMES == <<"team", "team_name", "teamName">>

\* 'Unknown'
Unknown == <<"U", "n", "k", "n", "o", "w", "n">>

\* pd.DataFrame()
EmptyFrame == [columns |-> <<>>, rows |-> <<>>]

\* self.event_data = None, self.tracking_data = None: nothing was loaded.
NoFrame == [none |-> TRUE]

IsNone(df) == "none" \in DOMAIN df

\* df[[a, b]].drop_duplicates(): the distinct pairs, in order of first occurrence.
RECURSIVE drop_duplicates(_, _, _, _, _)
drop_duplicates(rows, a, b, i, kept) ==
    IF i > Len(rows) THEN kept
    ELSE drop_duplicates(rows, a, b, i + 1,
             IF <<rows[i][a], rows[i][b]>> \in Range(kept) THEN kept
             ELSE Append(kept, <<rows[i][a], rows[i][b]>>))

\* left.merge(right, on='player_id', how='left'), right holding (id, value)
\* pairs: each left row once for every pair of its id, in the order of right.
RECURSIVE merge_left(_, _, _, _, _)
merge_left(left, right, column, i, merged) ==
    IF i > Len(left) THEN merged
    ELSE LET matches == SelectSeq(right, LAMBDA pair : pair[1] = left[i].player_id)
         IN  merge_left(left, right, column, i + 1,
                 merged \o
                 IF matches = <<>>
                 THEN <<Put(left[i], column, NaN)>>
                 ELSE [k \in DOMAIN matches |-> Put(left[i], column, matches[k][2])])

\* player_data[column] = 'Unknown'
assign_unknown(left, column) == [i \in DOMAIN left |-> Put(left[i], column, Unknown)]

\* (id, name) pairs as the rows of player_data after the rename
renamed(pairs) == [i \in DOMAIN pairs |-> [player_id |-> pairs[i][1], player_name |-> pairs[i][2]]]

\* BDCDataLoader.get_players_list: the rows of the returned frame.
get_players_list(event_data) ==
    IF IsNone(event_data) THEN <<>>
    ELSE
    LET id_col == FirstPresent(ID_NAMES, event_data.columns, None)
        name_col == FirstPresent(PLAYER_NAME_NAMES, event_data.columns, None)
        pos_col == FirstPresent(POSITION_NAMES, event_data.columns, None)
        team_col == FirstPresent(TEAM_NAMES, event_data.columns, None)
    IN  IF id_col # None /\ name_col # None
        THEN LET player_data ==
                     renamed(drop_duplicates(event_data.rows, id_col, name_col, 1, <<>>))
                 with_position ==
                     IF pos_col # None
                     THEN merge_left(player_data,
                                     drop_duplicates(event_data.rows, id_col, pos_col, 1, <<>>),
                                     "position", 1, <<>>)
                     ELSE assign_unknown(player_data, "position")
             IN  IF team_col # None
                 THEN merge_left(with_position,
                                 drop_duplicates(event_data.rows, id_col, team_col, 1, <<>>),
                                 "team", 1, <<>>)
                 ELSE assign_unknown(with_position, "team")
        ELSE <<>>

\* BDCDataLoader.get_player_events and get_player_tracking on their table
get_player_rows(data, player_id) ==
    IF IsNone(data) THEN EmptyFrame
    ELSE LET id_col == FirstPresent(ID_NAMES, data.columns, None)
         IN  IF id_col # None
             THEN [columns |-> data.columns,
                   rows |-> SelectSeq(data.rows, LAMBDA row : row[id_col] = player_id)]
             ELSE EmptyFrame

\* int(os.getenv('MIN_EVENTS_THRESHOLD', '10'))
DefaultMinEvents == 10

\* MIN_EVENTS_THRESHOLD of the configuration: the default and an override.
MinEventsThresholds == {DefaultMinEvents, 2}

\* Runs of equal event rows: player id, name, position cell and length.
EventRuns ==
    [player_id : {1, 2},
     player_name : {<<"Connor", "McDavid">>, <<"Jane", "Doe">>},
     position : {<<"F">>, NaN},
     n : {1, DefaultMinEvents - 1, DefaultMinEvents}]

\* Event tables: with all columns, without a position, without an event
\* type, without a player id.
EventLayouts ==
    { <<"player_id", "player_name", "position", "team", "event">>,
      <<"playerId", "name", "type">>,
      <<"id", "player", "pos", "detail">>,
      <<"player_name", "position", "event">> }

EventCell(run, col) ==
    IF col \in Range(ID_NAMES) THEN run.player_id
    ELSE IF col \in Range(PLAYER_NAME_NAMES) THEN run.player_name
    ELSE IF col \in Range(POSITION_NAMES) THEN run.position
    ELSE IF col \in Range(TEAM_NAMES) THEN <<"E", "D", "M">>
    ELSE <<"C", "a", "r", "r", "y">>

RECURSIVE EventRows(_, _, _)
EventRows(layout, runs, i) ==
    IF i > Len(runs) THEN <<>>
    ELSE [k \in 1..runs[i].n |-> [c \in Range(layout) |-> EventCell(runs[i], c)]]
         \o EventRows(layout, runs, i + 1)

EventTables ==
    { [columns |-> layout, rows |-> EventRows(layout, runs, 1)] :
        layout \in EventLayouts,
        runs \in {<<a>> : a \in EventRuns} \cup {<<a, b>> : a \in EventRuns, b \in EventRuns} }

\* Tracking samples of players 1 and 2.
MainSamples ==
    << [player_id |-> 1, t |-> 0, p |-> <<0, 0>>],
       [player_id |-> 2, t |-> 0, p |-> <<3, 0>>],
       [player_id |-> 1, t |-> 1, p |-> <<3, 4>>] >>

\* Tracking tables: none loaded, a full one, one without coordinates, one
\* without a player id.
TrackingTables ==
    {NoFrame} \cup
    { [columns |-> layout,
       rows |-> [i \in DOMAIN MainSamples |->
                    [c \in Range(layout) |->
                        IF c \in Range(ID_NAMES) THEN MainSamples[i].player_id
                        ELSE Cell(MainSamples[i], c)]]] :
        layout \in { <<"player_id", "time", "x", "y">>,
                     <<"playerId", "frame">>,
                     <<"time", "x", "y">> } }

\* The state at "for idx, player_row in players.iterrows()": the loaded
\* tables are not empty and the players list is taken.
InitMain ==
    /\ provider = "mock"
    /\ op = "main"
    /\ arg \in [MIN_EVENTS_THRESHOLD : MinEventsThresholds,
                event_data : EventTables,
                tracking_data : TrackingTables]
    /\ players = get_players_list(arg.event_data)
    /\ ret = None
    /\ InitPipe

\* A call of the metrics calculator or of the capability for a player.
MainCall(method, player_id) == [method |-> method, player_id |-> player_id]

\* One iteration of the loop over players.
ProcessPlayer ==
    /\ pc = "loop"
    /\ idx < Len(players)
    /\ LET player_row == players[idx + 1]
           player_id == player_row.player_id
           player_name == player_row.player_name
           position == Get(player_row, "position", Unknown)
           player_events == get_player_rows(arg.event_data, player_id)
           player_tracking == get_player_rows(arg.tracking_data, player_id)
       IN  IF Len(player_events.rows) < arg.MIN_EVENTS_THRESHOLD
           THEN \* continue
                /\ idx' = idx + 1
                /\ UNCHANGED <<heap, all_reports, calls, pc, ret>>
           ELSE \E metrics \in calculate_all_metrics(player_tracking, player_events, position) :
                  IF IsRaised(metrics)
                  THEN \* the exception leaves main()
                       /\ calls' = Append(calls, MainCall("calculate_all_metrics", player_id))
                       /\ ret' = metrics
                       /\ pc' = "raised"
                       /\ UNCHANGED <<idx, heap, all_reports>>
                  ELSE LET prompt == generate_player_prompt(player_name, position, metrics)
                       IN  \E scouting_notes \in ReportResults(provider, prompt) :
                           \E score \in ScoreResults(provider, prompt) :
                              /\ calls' = calls \o
                                     << MainCall("calculate_all_metrics", player_id),
                                        MainCall("generate_report", player_id),
                                        MainCall("generate_score", player_id) >>
                              /\ heap' = Append(heap,
                                    generate_player_report(player_name, position,
                                                           metrics, scouting_notes, score))
                              /\ all_reports' = Append(all_reports, Len(heap) + 1)
                              /\ idx' = idx + 1
                              /\ UNCHANGED <<pc, ret>>
    /\ UNCHANGED <<provider, players, ranked_reports, summary, output_file, locals>>
    /\ UNCHANGED <<op, arg>>

\* if len(all_reports) == 0: return
ReturnNoReports ==
    /\ pc = "loop"
    /\ idx = Len(players)
    /\ Len(all_reports) = 0
    /\ pc' = "returned"
    /\ UNCHANGED <<provider, players, idx, heap, all_reports, ranked_reports,
                   summary, output_file, calls, locals>>
    /\ UNCHANGED callVars

\* ranked_reports = report_gen.rank_players(all_reports) of main()
MainRankPlayers ==
    /\ Len(all_reports) # 0
    /\ RankPlayers

NextMain ==
    \/ ProcessPlayer
    \/ ReturnNoReports
    \/ MainRankPlayers
    \/ GenerateSummary
    \/ SaveReportsJson

SpecMain == InitMain /\ [][NextMain]_vars

(***************************************************************************)
(* The metric functions called twice on the same frames: what a call       *)
(* leaves of the caller's frames, and what the second call returns.        *)
(***************************************************************************)
\* tracking_df = tracking_df.sort_values(time_col) sorts the caller's frame itself.
sort_values_inplace(df, rows) ==
    [caller |-> [df EXCEPT !.rows = rows], local |-> [df EXCEPT !.rows = rows]]

\* tracking_df = tracking_df.sort_values(time_col): sort_values returns a new
\* frame, to which the local name is bound; the caller's frame is as before.
sort_values_copy(df, rows) ==
    [caller |-> df, local |-> [df EXCEPT !.rows = rows]]

MetricFunctions ==
    {"calculate_total_distance", "calculate_average_speed", "calculate_max_speed",
     "calculate_direction_changes", "calculate_all_metrics"}

\* The function reaches a sort_values call on the tracking frame.
Sorts(name, tracking_df) ==
    LET n == Len(tracking_df.rows)
        x_col == find_column(tracking_df.columns, X_NAMES)
        y_col == find_column(tracking_df.columns, Y_NAMES)
        time_col == find_column(tracking_df.columns, TIME_NAMES)
    IN  CASE name = "calculate_total_distance" ->
                n >= 2 /\ x_col # "" /\ y_col # "" /\ time_col # ""
          [] name = "calculate_average_speed" -> n >= 2 /\ time_col # ""
          [] name = "calculate_max_speed" ->
                n >= 2 /\ x_col # "" /\ y_col # "" /\ time_col # ""
          [] name = "calculate_direction_changes" ->
                n >= 3 /\ x_col # "" /\ y_col # "" /\ time_col # ""
          [] name = "calculate_all_metrics" -> n >= 2 /\ time_col # ""

\* The caller's tracking frame after a call of the function.
caller_frame_after(name, tracking_df) ==
    IF Sorts(name, tracking_df)
    THEN { sort_values_copy(tracking_df, sorted).caller :
             sorted \in sort_values(tracking_df.rows,
                                    find_column(tracking_df.columns, TIME_NAMES)) }
    ELSE {tracking_df}

\* The possible results of a call of the function on the frames of a.
metric_results(name, a) ==
    CASE name = "calculate_total_distance" -> calculate_total_distance(a.tracking_df)
      [] name = "calculate_average_speed" -> calculate_average_speed(a.tracking_df)
      [] name = "calculate_max_speed" -> calculate_max_speed(a.tracking_df)
      [] name = "calculate_direction_changes" ->
            calculate_direction_changes(a.tracking_df, DefaultThreshold)
      [] name = "calculate_all_metrics" ->
            calculate_all_metrics(a.tracking_df, a.event_df, a.position)

PureTimes == {0, 1}

PureFrames ==
    {DataFrame(layout, samples) :
        layout \in {<<"time", "x", "y">>, <<"x", "y">>},
        samples \in SeqsUpTo([t : PureTimes, p : OrderPoints], MaxSamples)}

PureEvents ==
    { [columns |-> <<"event">>, rows |-> <<>>],
      [columns |-> <<"event">>, rows |-> <<[event |-> <<"C", "a", "r", "r", "y">>]>>] }

InitPure ==
    /\ NoPipe
    /\ op = "none"
    /\ arg \in [tracking_df : PureFrames,
                event_df : PureEvents,
                position : {<<"G">>, <<"F">>},
                ties : {"kept", "reversed"}]
    /\ ret = None

\* A call of one of the functions on the caller's frames.
CallMetric ==
    /\ op = "none"
    /\ \E name \in MetricFunctions :
          /\ op' = name
          /\ \E result \in metric_results(name, arg) : ret' = <<result>>
          /\ \E after \in caller_frame_after(name, arg.tracking_df) :
                arg' = [arg EXCEPT !.tracking_df = after]
    /\ UNCHANGED pipeVars

\* The same function called again on the frames the caller holds.
CallMetricAgain ==
    /\ op \in MetricFunctions
    /\ Len(ret) = 1
    /\ \E result \in metric_results(op, arg) : ret' = Append(ret, result)
    /\ \E after \in caller_frame_after(op, arg.tracking_df) :
          arg' = [arg EXCEPT !.tracking_df = after]
    /\ UNCHANGED op
    /\ UNCHANGED pipeVars

NextPure == CallMetric \/ CallMetricAgain

SpecPure == InitPure /\ [][NextPure]_vars

(***************************************************************************)
(* rank_players called a second time, on a batch made of reports that a    *)
(* first call has ranked: the reports are shared between the lists.        *)
(***************************************************************************)
\* The lists a caller can make of the reports, each report at most once.
Batches(reports) ==
    {b \in SeqsUpTo(Range(reports), Len(reports)) :
        \A i, j \in DOMAIN b : i # j => b[i] # b[j]}

InitRerank ==
    /\ provider \in {"mock", "injected"}
    /\ players \in SeqsUpTo(PlayerRows, MaxLLMBatch)
    /\ InitPipe
    /\ InitCall

\* ranked_reports = report_gen.rank_players(batch), after a first ranking
RankPlayersAgain ==
    /\ pc = "ranked"
    /\ \E batch \in Batches(all_reports) :
          LET r == rank_players(batch, heap)
          IN  /\ arg' = batch
              /\ ranked_reports' = r.sorted_reports
              /\ heap' = r.heap
    /\ op' = "rank_players"
    /\ pc' = "ranked again"
    /\ UNCHANGED <<provider, players, idx, all_reports, summary, output_file,
                   calls, locals, ret>>

NextRerank == GeneratePlayerReport \/ RankPlayers \/ RankPlayersAgain

SpecRerank == InitRerank /\ [][NextRerank]_vars

(***************************************************************************)
(* main() run a second time on the same tables with the players list in    *)
(* another order; ret keeps what the first run ranked.                     *)
(***************************************************************************)
\* A report without the rank rank_players wrote into it.
Unranked(report) == [k \in DOMAIN report \ {"rank"} |-> report[k]]

\* The orders of a list.
Reorderings(rows) ==
    {[i \in DOMAIN rows |-> rows[q[i]]] : q \in RowOrders(Len(rows))}

\* The loop and the ranking start again on the reordered list.
RunAgainReordered ==
    /\ op = "main"
    /\ pc = "ranked"
    /\ players' \in Reorderings(players)
    /\ ret' = [players |-> players,
               ranked_reports |-> [i \in DOMAIN ranked_reports |->
                                      Unranked(heap[ranked_reports[i]])]]
    /\ op' = "main again"
    /\ idx' = 0
    /\ heap' = <<>>
    /\ all_reports' = <<>>
    /\ ranked_reports' = <<>>
    /\ calls' = <<>>
    /\ pc' = "loop"
    /\ UNCHANGED <<provider, summary, output_file, locals, arg>>

NextTwice ==
    \/ ProcessPlayer
    \/ ReturnNoReports
    \/ MainRankPlayers
    \/ RunAgainReordered
    \/ GenerateSummary
    \/ SaveReportsJson

SpecTwice == InitMain /\ [][NextTwice]_vars

(***************************************************************************)
(* Properties.                                                             *)
(***************************************************************************)
Tiers == {"S", "A", "B", "C", "D", "F"}

Ranked == pc \in {"ranked", "summarized", "saved"}

ScoreAt(i) == heap[ranked_reports[i]].score

\* Position of a report object in the batch handed to rank_players.
InputPos(o) == CHOOSE i \in DOMAIN all_reports : all_reports[i] = o

InputScores == [i \in DOMAIN all_reports |-> heap[all_reports[i]].score]

\* C1: _score_to_tier is total over the integers and boundary-inclusive:
\* S from 90, A for 80..89, B for 70..79, C for 60..69, D for 50..59, F below
\* 50; the ten boundary scores map to S,A,A,B,B,C,C,D,D,F.
C1_TierTable ==
    op = "_score_to_tier" =>
        /\ ret \in Tiers
        /\ (ret = "S") = (arg >= 90)
        /\ (ret = "A") = (arg \in 80..89)
        /\ (ret = "B") = (arg \in 70..79)
        /\ (ret = "C") = (arg \in 60..69)
        /\ (ret = "D") = (arg \in 50..59)
        /\ (ret = "F") = (arg < 50)
        /\ \A i \in 1..10 :
              arg = <<90, 89, 80, 79, 70, 69, 60, 59, 50, 49>>[i]
                 => ret = <<"S", "A", "A", "B", "B", "C", "C", "D", "D", "F">>[i]

C1_Witness == op = "_score_to_tier" /\ arg = 89 /\ ret = "A"

\* C2: rank_players returns the batch sorted by score, highest first, and
\* reports of equal score keep the order they had in the input batch; the
\* batch [50, 90, 90, 70] comes out as [90, 90, 70, 50], first 90 first.
C2_StableSortDesc ==
    Ranked =>
        /\ Len(ranked_reports) = Len(all_reports)
        /\ Range(ranked_reports) = Range(all_reports)
        /\ \A i, j \in DOMAIN ranked_reports :
              i < j =>
                 /\ ScoreAt(i) >= ScoreAt(j)
                 /\ ScoreAt(i) = ScoreAt(j)
                       => InputPos(ranked_reports[i]) < InputPos(ranked_reports[j])
        /\ InputScores = <<50, 90, 90, 70>>
              => ranked_reports = <<all_reports[2], all_reports[3],
                                    all_reports[4], all_reports[1]>>

C2_Witness ==
    /\ pc = "ranked"
    /\ InputScores = <<50, 90, 90, 70>>
    /\ ranked_reports = <<all_reports[2], all_reports[3], all_reports[4], all_reports[1]>>

\* C3: after rank_players the report at index i of the result (counting
\* from 0) has rank i + 1: the ranks are 1..n, each once, ties included.
C3_RankIsIndexPlusOne ==
    Ranked =>
        /\ \A i \in DOMAIN ranked_reports :
              /\ "rank" \in DOMAIN heap[ranked_reports[i]]
              /\ heap[ranked_reports[i]].rank = i
        /\ {heap[o].rank : o \in Range(ranked_reports)} = 1..Len(all_reports)

C3_Witness ==
    /\ pc = "ranked"
    /\ Len(ranked_reports) >= 3
    /\ ScoreAt(1) = ScoreAt(2)
    /\ heap[ranked_reports[1]].rank = 1
    /\ heap[ranked_reports[2]].rank = 2

\* The report of the player whose name holds the given word.
ReportOf(word) == CHOOSE o \in DOMAIN heap : word \in Range(heap[o].player_name)

E2ETiers ==
    /\ heap[ReportOf("McDavid")].tier = "S"
    /\ heap[ReportOf("Matthews")].tier = "A"
    /\ heap[ReportOf("Makar")].tier = "S"
    /\ heap[ReportOf("Shesterkin")].tier = "S"
    /\ heap[ReportOf("MacKinnon")].tier = "S"

\* C4 as claimed: the five mock players get tiers S, A, S, S, S and ranks
\* McDavid 1, MacKinnon 2, Shesterkin 3, Makar 4, Matthews 5.
C4_AsClaimed ==
    Ranked =>
        /\ E2ETiers
        /\ heap[ReportOf("McDavid")].rank = 1
        /\ heap[ReportOf("MacKinnon")].rank = 2
        /\ heap[ReportOf("Shesterkin")].rank = 3
        /\ heap[ReportOf("Makar")].rank = 4
        /\ heap[ReportOf("Matthews")].rank = 5

\* C4: with the mock scores McDavid 95, Matthews 88, Makar 92, Shesterkin 90,
\* MacKinnon 93 the tiers are S, A, S, S, S and the ranks follow the scores:
\* McDavid 1, MacKinnon 2, Makar 3, Shesterkin 4, Matthews 5.
C4_E2ERanking ==
    Ranked =>
        /\ E2ETiers
        /\ [i \in DOMAIN ranked_reports |-> heap[ranked_reports[i]].player_name[2]]
              = <<"McDavid", "MacKinnon", "Makar", "Shesterkin", "Matthews">>
        /\ heap[ReportOf("McDavid")].rank = 1
        /\ heap[ReportOf("MacKinnon")].rank = 2
        /\ heap[ReportOf("Makar")].rank = 3
        /\ heap[ReportOf("Shesterkin")].rank = 4
        /\ heap[ReportOf("Matthews")].rank = 5

C4_Witness ==
    /\ pc = "ranked"
    /\ players = TestPlayers
    /\ InputScores = <<95, 88, 92, 90, 93>>

\* C5 as claimed: whatever capability is injected, every stored score is an
\* integer in 0..100.
C5_AsClaimed == \A o \in DOMAIN heap : heap[o].score \in 0..100

\* C5: with the repository's own capabilities (the OpenAI, Anthropic and
\* Ollama providers, which clamp and default, and the test mock) every
\* stored score is in 0..100; generate_player_report itself does not clamp.
C5_ProviderScoresInRange ==
    provider \in LLMProviders \cup {"mock"}
        => \A o \in DOMAIN heap : heap[o].score \in 0..100

C5_Witness ==
    /\ provider \in LLMProviders
    /\ pc = "summarized"
    /\ \E o \in DOMAIN heap : heap[o].score = 100 /\ heap[o].tier = "S"

\* The number written by text[i..j], digit by digit.
RECURSIVE Decimal(_, _, _)
Decimal(text, i, j) ==
    IF j < i THEN 0
    ELSE DigitValue(text[i]) * 10 ^ (j - i) + Decimal(text, i + 1, j)

\* C6: a provider's generate_score parses the first run of decimal digits
\* of the reply and clamps it into 0..100; a reply without digits gives 50;
\* a failed call (exception, or a non-200 status for Ollama) gives 50; the
\* result is always in 0..100.
C6_ScoreParse ==
    op = "generate_score" =>
        LET text == arg.reply.text
            digitAt == {i \in DOMAIN text : text[i] \in Digits}
        IN  /\ ret \in 0..100
            /\ arg.reply.kind # "ok" => ret = 50
            /\ arg.reply.kind = "ok" /\ digitAt = {} => ret = 50
            /\ arg.reply.kind = "ok" /\ digitAt # {} =>
                  LET i == CHOOSE a \in digitAt : \A b \in digitAt : a <= b
                      ends == {k \in i..Len(text) : \A m \in i..k : text[m] \in Digits}
                      j == CHOOSE a \in ends : \A b \in ends : a >= b
                      n == Decimal(text, i, j)
                  IN  ret = IF n > 100 THEN 100 ELSE n

C6_Witness ==
    /\ op = "generate_score"
    /\ arg.reply.kind = "ok"
    /\ arg.reply.text = <<"1", "5", "0">>
    /\ ret = 100

RECURSIVE TotalScore(_)
TotalScore(n) == IF n = 0 THEN 0 ELSE ScoreAt(n) + TotalScore(n - 1)

RECURSIVE SumCounts(_, _)
SumCounts(counts, keys) ==
    IF keys = {} THEN 0
    ELSE LET k == CHOOSE k \in keys : TRUE
         IN  counts[k] + SumCounts(counts, keys \ {k})

\* C7: on a non-empty batch generate_summary returns total_players = the
\* batch length, per-tier counts that equal the number of reports of each
\* tier and sum to total_players, and average_score = sum of scores / length.
C7_SummaryCounts ==
    (pc = "summarized" /\ ranked_reports # <<>>) =>
        LET n == Len(ranked_reports)
            counts == summary.tier_distribution
        IN  /\ summary.total_players = n
            /\ DOMAIN counts \subseteq Tiers
            /\ \A t \in Tiers :
                  Get(counts, t, 0)
                     = Cardinality({i \in 1..n : heap[ranked_reports[i]].tier = t})
            /\ \A t \in DOMAIN counts : counts[t] >= 1
            /\ SumCounts(counts, DOMAIN counts) = summary.total_players
            /\ summary.average_score.den > 0
            /\ summary.average_score.num * n = TotalScore(n) * summary.average_score.den

C7_Witness ==
    /\ pc = "summarized"
    /\ Len(ranked_reports) >= 3
    /\ Cardinality(DOMAIN summary.tier_distribution) >= 2
    /\ \E t \in DOMAIN summary.tier_distribution : summary.tier_distribution[t] >= 2

\* C8: on an empty batch rank_players returns an empty list and
\* generate_summary returns, without raising, total_players = 0, an empty
\* tier_distribution, an empty top-3 list and no average_score.
C8_EmptyBatch ==
    /\ (Ranked /\ all_reports = <<>>) => ranked_reports = <<>>
    /\ (pc = "summarized" /\ ranked_reports = <<>>) =>
          /\ "raised" \notin DOMAIN summary
          /\ summary.total_players = 0
          /\ DOMAIN summary.tier_distribution = {}
          /\ Len(summary.top_3_players) = 0
          /\ "average_score" \notin DOMAIN summary

C8_Witness == pc = "summarized" /\ players = <<>> /\ summary.total_players = 0

\* C9: column resolution returns the first name of the candidate list that
\* is a column of the table, whatever the order of the table's columns, and
\* the not-found value ("" for _find_column, None in the loader) when no
\* candidate is a column.
C9_FirstAliasPresent ==
    op \in {"_find_column", "get_player_events"} =>
        LET names == arg.possible_names
            hits == {i \in DOMAIN names : names[i] \in Range(arg.columns)}
        IN  IF hits = {}
            THEN ret = (IF op = "_find_column" THEN "" ELSE None)
            ELSE ret = names[CHOOSE i \in hits : \A k \in hits : i <= k]

C9_Witness ==
    /\ op = "_find_column"
    /\ arg.columns = <<"x_coord", "time", "x">>
    /\ ret = "x"

\* The column of the table that holds a field, when it has one.
ColumnFor(names, df) == CHOOSE c \in Range(names) : c \in Range(df.columns)

Has(names, df) == Range(names) \cap Range(df.columns) # {}

\* Length of the path through the rows in the order q, fixed-point.
RECURSIVE PathAlong(_, _, _)
PathAlong(df, q, i) ==
    IF i >= Len(q) THEN 0
    ELSE LET a == df.rows[q[i]]
             b == df.rows[q[i + 1]]
             x == ColumnFor(X_NAMES, df)
             y == ColumnFor(Y_NAMES, df)
         IN  calculate_distance(a[x], a[y], b[x], b[y]) + PathAlong(df, q, i + 1)

\* d is the Euclidean distance of the two points, to the resolution 1/Scale.
IsEuclid(d, a, b) ==
    LET sq == (a[1] - b[1]) * (a[1] - b[1]) + (a[2] - b[2]) * (a[2] - b[2])
    IN  d >= 0 /\ d * d <= sq * Scale * Scale /\ (d + 1) * (d + 1) > sq * Scale * Scale

\* C10: calculate_total_distance is the sum of the Euclidean distances of
\* consecutive samples taken in ascending time; it is 0.0 for fewer than
\* two samples or an unresolved x or y column; (0,0),(3,4) gives exactly 5.
C10_TotalDistance ==
    op = "calculate_total_distance" =>
        LET n == Len(arg.rows)
        IN  /\ \A a, b \in Points :
                  IsEuclid(calculate_distance(a[1], a[2], b[1], b[2]), a, b)
            /\ IF n < 2 \/ ~Has(X_NAMES, arg) \/ ~Has(Y_NAMES, arg)
               THEN ret = 0
               ELSE \E q \in [1..n -> 1..n] :
                       /\ \A i, j \in 1..n : i # j => q[i] # q[j]
                       /\ IF Has(TIME_NAMES, arg)
                          THEN \A i, j \in 1..n :
                                  i < j => arg.rows[q[i]][ColumnFor(TIME_NAMES, arg)]
                                             <= arg.rows[q[j]][ColumnFor(TIME_NAMES, arg)]
                          ELSE \A i \in 1..n : q[i] = i
                       /\ ret = PathAlong(arg, q, 1)
            /\ (/\ n = 2
                /\ Has(X_NAMES, arg)
                /\ Has(Y_NAMES, arg)
                /\ {<<arg.rows[i][ColumnFor(X_NAMES, arg)],
                      arg.rows[i][ColumnFor(Y_NAMES, arg)]>> : i \in 1..2}
                      = {<<0, 0>>, <<3, 4>>})
                  => ret = 5 * Scale

C10_Witness ==
    /\ op = "calculate_total_distance"
    /\ arg = DataFrame(<<"time", "x", "y">>,
                       << [t |-> 2, p |-> <<3, 0>>],
                          [t |-> 0, p |-> <<0, 0>>],
                          [t |-> 1, p |-> <<3, 4>>] >>)
    /\ ret = 9 * Scale

\* q lists the rows of the table in an order the engine may process them
\* in: ascending in time when the table has a time column (any order of
\* equal times), the input order otherwise.
IsTimeOrder(df, q) ==
    LET n == Len(df.rows)
    IN  /\ \A i, j \in 1..n : i # j => q[i] # q[j]
        /\ IF Has(TIME_NAMES, df)
           THEN \A i, j \in 1..n :
                   i < j => df.rows[q[i]][ColumnFor(TIME_NAMES, df)]
                              <= df.rows[q[j]][ColumnFor(TIME_NAMES, df)]
           ELSE \A i \in 1..n : q[i] = i

TimeOrders(df) ==
    {q \in [1..Len(df.rows) -> 1..Len(df.rows)] : IsTimeOrder(df, q)}

TimeAt(df, q, i) == df.rows[q[i]][ColumnFor(TIME_NAMES, df)]

PointAt(df, q, i) ==
    <<df.rows[q[i]][ColumnFor(X_NAMES, df)], df.rows[q[i]][ColumnFor(Y_NAMES, df)]>>

\* Distance covered between the i-th and the next row of the order q.
SegmentAt(df, q, i) ==
    calculate_distance(PointAt(df, q, i)[1], PointAt(df, q, i)[2],
                       PointAt(df, q, i + 1)[1], PointAt(df, q, i + 1)[2])

\* C11: calculate_average_speed is total_distance / (t_last - t_first) over
\* the samples in ascending time; it is 0.0 when that duration is not
\* positive, with fewer than two samples and without a time column; a
\* distance of 100 over a duration of 10 gives 10.
C11_AverageSpeed ==
    op = "calculate_average_speed" =>
        LET n == Len(arg.rows)
        IN  /\ IF n < 2 \/ ~Has(TIME_NAMES, arg)
               THEN ret = Zero
               ELSE \E q \in TimeOrders(arg) :
                       LET duration == TimeAt(arg, q, n) - TimeAt(arg, q, 1)
                           total_distance ==
                               IF Has(X_NAMES, arg) /\ Has(Y_NAMES, arg)
                               THEN PathAlong(arg, q, 1) ELSE 0
                       IN  IF duration <= 0
                           THEN ret = Zero
                           ELSE ret.num * duration = total_distance * ret.den
            /\ ret.den > 0
            /\ Divide(100 * Scale, 10) = [num |-> 10 * Scale, den |-> 1]

C11_Witness ==
    /\ op = "calculate_average_speed"
    /\ arg = DataFrame(<<"time", "x", "y">>,
                       << [t |-> 2, p |-> <<3, 0>>],
                          [t |-> 0, p |-> <<0, 0>>],
                          [t |-> 1, p |-> <<3, 4>>] >>)
    /\ ret.num * 2 = 9 * Scale * ret.den

\* C12: calculate_max_speed is the largest distance/dt over the consecutive
\* pairs of the time-sorted samples that have dt > 0; pairs with dt <= 0 are
\* ignored; it is 0.0 when no pair has dt > 0, with fewer than two samples,
\* and when the x, y or time column cannot be resolved.
C12_MaxSpeed ==
    op = "calculate_max_speed" =>
        LET n == Len(arg.rows)
        IN  IF \/ n < 2
               \/ ~Has(X_NAMES, arg)
               \/ ~Has(Y_NAMES, arg)
               \/ ~Has(TIME_NAMES, arg)
            THEN ret = Zero
            ELSE \E q \in TimeOrders(arg) :
                    LET dt(i) == TimeAt(arg, q, i + 1) - TimeAt(arg, q, i)
                        moving == {i \in 1..(n - 1) : dt(i) > 0}
                    IN  IF moving = {}
                        THEN ret = Zero
                        ELSE /\ ret.den > 0
                             /\ \E i \in moving :
                                   ret.num * dt(i) = SegmentAt(arg, q, i) * ret.den
                             /\ \A i \in moving :
                                   SegmentAt(arg, q, i) * ret.den <= ret.num * dt(i)

\* Two samples share a timestamp: their pair is ignored and the speed of
\* the remaining segment is reported.
C12_Witness ==
    /\ op = "calculate_max_speed"
    /\ arg = DataFrame(<<"time", "x", "y">>,
                       << [t |-> 1, p |-> <<3, 0>>],
                          [t |-> 0, p |-> <<0, 0>>],
                          [t |-> 0, p |-> <<3, 4>>] >>)
    /\ ret = [num |-> 4 * Scale, den |-> 1]

\* The angle between two non-zero vectors is at least the threshold, told
\* from the tangent: cross and dot product of the vectors.
TurnsBy(v1, v2, threshold) ==
    LET dot == v1[1] * v2[1] + v1[2] * v2[2]
        cross == v1[1] * v2[2] - v1[2] * v2[1]
    IN  CASE threshold = 30 -> dot <= 0 \/ 3 * cross * cross >= dot * dot
          [] threshold = 45 -> dot <= 0 \/ cross * cross >= dot * dot
          [] threshold = 90 -> dot <= 0
          [] threshold = 135 -> dot < 0 /\ cross * cross <= dot * dot

Step(df, q, i) ==
    <<PointAt(df, q, i + 1)[1] - PointAt(df, q, i)[1],
      PointAt(df, q, i + 1)[2] - PointAt(df, q, i)[2]>>

C14_UnresolvedCoordinates ==
    LET df == IF op = "calculate_direction_changes" THEN arg.tracking_df ELSE arg
    IN  (/\ op \in {"calculate_total_distance", "calculate_average_speed",
                    "calculate_max_speed", "calculate_direction_changes"}
         /\ (~Has(X_NAMES, df) \/ ~Has(Y_NAMES, df)))
            => IF op \in {"calculate_average_speed", "calculate_max_speed"}
               THEN ret = Zero
               ELSE ret = 0

C14_Witness ==
    /\ op = "calculate_total_distance"
    /\ arg = DataFrame(<<"frame", "x_coord">>,
                       << [t |-> 0, p |-> <<0, 0>>],
                          [t |-> 1, p |-> <<3, 4>>],
                          [t |-> 2, p |-> <<0, 0>>] >>)
    /\ ret = 0

DistinctTimes(df) ==
    /\ Has(TIME_NAMES, df)
    /\ \A i, j \in DOMAIN df.rows :
          i # j => df.rows[i][ColumnFor(TIME_NAMES, df)] # df.rows[j][ColumnFor(TIME_NAMES, df)]

\* C15: for a series with a time column and pairwise distinct timestamps,
\* every permutation of the input rows yields the same total_distance,
\* average_speed, max_speed and direction_changes and the same role metrics
\* of calculate_all_metrics.
C15_AsClaimed ==
    (op = "calculate_all_metrics_reordered" /\ DistinctTimes(arg.tracking_df))
        => ret.first = ret.second

\* The sum of the absolute x steps along the rows in the order q, fixed-point.
RECURSIVE LateralAlong(_, _, _)
LateralAlong(df, q, i) ==
    IF i >= Len(q) THEN 0
    ELSE LET dx == PointAt(df, q, i + 1)[1] - PointAt(df, q, i)[1]
         IN  (IF dx < 0 THEN -dx ELSE dx) * Scale + LateralAlong(df, q, i + 1)

\* C16: a goalie's lateral_movement is the sum of the absolute x steps
\* between consecutive samples of the time-sorted series, not of the series
\* in input order.
C16_AsClaimed ==
    (op = "calculate_all_metrics" /\ arg.position = <<"G">>)
        => \E q \in TimeOrders(arg.tracking_df) :
              ret.lateral_movement = LateralAlong(arg.tracking_df, q, 1)

BaseKeys == {"total_distance", "average_speed", "max_speed", "direction_changes"}

\* Keys calculate_all_metrics sets for every player.
CommonKeys == BaseKeys \cup {"on_puck_distance", "space_creation", "events_count"}

\* position spells one of the words (given in lower case) in some letter case.
IsSpelling(position, words) ==
    \E w \in words :
        /\ Len(w) = Len(position)
        /\ \A i \in DOMAIN w : position[i] \in {w[i], UpperChar(w[i])}

RoleKeys(ret_) == DOMAIN ret_ \ CommonKeys

\* C17 as stated: every spelling of Goalie, Defender, Forward and Unknown in
\* any letter case is handled as its role.
C17_AsClaimed ==
    op = "calculate_all_metrics" =>
        /\ IsSpelling(arg.position, {<<"g", "o", "a", "l", "i", "e">>})
              => RoleKeys(ret) = {"crease_movement", "lateral_movement"}
        /\ IsSpelling(arg.position, {<<"d", "e", "f", "e", "n", "d", "e", "r">>})
              => RoleKeys(ret) = {"gap_control"}
        /\ IsSpelling(arg.position, {<<"f", "o", "r", "w", "a", "r", "d">>})
              => RoleKeys(ret) = {"high_danger_positioning"}
        /\ IsSpelling(arg.position, {<<"u", "n", "k", "n", "o", "w", "n">>})
              => RoleKeys(ret) = {}

\* C17: the role dispatch is total over strings and case-insensitive: a
\* spelling of g, goalie or goalkeeper adds exactly crease_movement and
\* lateral_movement, one of d, defense or defenseman exactly gap_control, one
\* of f or forward exactly high_danger_positioning, and every other string
\* ("Defender", "Unknown" and "" among them) adds nothing.
C17_RoleDispatch ==
    op = "calculate_all_metrics" =>
        RoleKeys(ret) =
            IF IsSpelling(arg.position,
                          { <<"g">>, <<"g", "o", "a", "l", "i", "e">>,
                            <<"g", "o", "a", "l", "k", "e", "e", "p", "e", "r">> })
            THEN {"crease_movement", "lateral_movement"}
            ELSE IF IsSpelling(arg.position,
                               { <<"d">>, <<"d", "e", "f", "e", "n", "s", "e">>,
                                 <<"d", "e", "f", "e", "n", "s", "e", "m", "a", "n">> })
            THEN {"gap_control"}
            ELSE IF IsSpelling(arg.position,
                               { <<"f">>, <<"f", "o", "r", "w", "a", "r", "d">> })
            THEN {"high_danger_positioning"}
            ELSE {}

C17_Witness ==
    /\ op = "calculate_all_metrics"
    /\ arg.position = <<"g", "O", "a", "L", "i", "E">>
    /\ RoleKeys(ret) = {"crease_movement", "lateral_movement"}

\* C18 as stated: for the Unknown role the metrics hold only the four base
\* keys and events_count.
C18_AsClaimed ==
    op = "calculate_all_metrics" =>
        /\ BaseKeys \subseteq DOMAIN ret
        /\ IsSpelling(arg.position, {<<"u", "n", "k", "n", "o", "w", "n">>})
              => /\ DOMAIN ret = BaseKeys \cup {"events_count"}
                 /\ ret.events_count = Len(arg.event_df.rows)

\* C18: for the Unknown role the metrics hold exactly total_distance,
\* average_speed, max_speed, direction_changes, on_puck_distance,
\* space_creation and events_count, the last being the number of event
\* records; for every role the four base keys are present.
C18_UnknownKeys ==
    op = "calculate_all_metrics" =>
        /\ BaseKeys \subseteq DOMAIN ret
        /\ ret.events_count = Len(arg.event_df.rows)
        /\ IsSpelling(arg.position, {<<"u", "n", "k", "n", "o", "w", "n">>})
              => DOMAIN ret = CommonKeys

C18_Witness ==
    /\ op = "calculate_all_metrics"
    /\ arg.position = <<"U", "n", "k", "n", "o", "w", "n">>
    /\ Len(arg.event_df.rows) = 2
    /\ ret.events_count = 2
    /\ DOMAIN ret = CommonKeys

ReportFields ==
    {"player_name", "position", "metrics", "scouting_notes", "score", "tier", "rank"}

\* C19: every report returned by rank_players, and written as
\* player_reports by save_reports_json, has exactly the fields player_name,
\* position, metrics, scouting_notes, score, tier and rank; the saved
\* document has exactly the top-level fields summary and player_reports,
\* with player_reports in rank order.
C19_ReportShape ==
    /\ Ranked =>
          \A i \in DOMAIN ranked_reports :
              DOMAIN heap[ranked_reports[i]] = ReportFields
    /\ pc = "saved" =>
          /\ DOMAIN output_file = {"summary", "player_reports"}
          /\ output_file.summary = summary
          /\ Len(output_file.player_reports) = Len(players)
          /\ \A i \in DOMAIN output_file.player_reports :
                /\ DOMAIN output_file.player_reports[i] = ReportFields
                /\ output_file.player_reports[i].rank = i
                /\ output_file.player_reports[i] = heap[ranked_reports[i]]

\* A saved batch whose best player came last in the input.
C19_Witness ==
    /\ pc = "saved"
    /\ Len(players) = 3
    /\ InputScores = <<50, 70, 90>>
    /\ output_file.player_reports[1].score = 90
    /\ output_file.player_reports[1].rank = 1
    /\ output_file.player_reports[3].score = 50

TierOf(score) ==
    IF score >= 90 THEN "S"
    ELSE IF score >= 80 THEN "A"
    ELSE IF score >= 70 THEN "B"
    ELSE IF score >= 60 THEN "C"
    ELSE IF score >= 50 THEN "D"
    ELSE "F"

\* Tiers from best to worst.
TierOrder == <<"S", "A", "B", "C", "D", "F">>

TierIndex(tier) == CHOOSE i \in DOMAIN TierOrder : TierOrder[i] = tier

\* C20: in every report built by generate_player_report and in the ranked
\* output the tier is _score_to_tier(score); a strictly higher score has a
\* strictly smaller rank; along increasing rank the tiers never improve.
C20_TierAndRankAgree ==
    /\ \A o \in DOMAIN heap : heap[o].tier = TierOf(heap[o].score)
    /\ Ranked =>
          \A i, j \in DOMAIN ranked_reports :
              LET a == heap[ranked_reports[i]]
                  b == heap[ranked_reports[j]]
              IN  /\ a.score > b.score => a.rank < b.rank
                  /\ a.rank < b.rank => TierIndex(a.tier) <= TierIndex(b.tier)

\* Scores out of order, one of them twice, over three tiers.
C20_Witness ==
    /\ pc = "ranked"
    /\ InputScores = <<50, 90, 70, 90>>
    /\ [i \in 1..4 |-> heap[ranked_reports[i]].tier] = <<"S", "S", "B", "D">>

ErrorTexts == {ErrorReport, ErrorStatus, ErrorConnect}

\* The two calls made for the i-th player of the list.
ReportCall(i) == calls[2 * i - 1]

ScoreCall(i) == calls[2 * i]

\* C21: a failed call of the scoring capability surfaces as a value:
\* generate_report returns an error text that is stored unchanged as
\* scouting_notes, generate_score returns 50, and the player gets a
\* complete report with score 50 and tier D that is ranked like any other.
C21_FailureAsValue ==
    /\ \A k \in DOMAIN calls :
          calls[k].reply # "ok" =>
              IF calls[k].method = "generate_report"
              THEN calls[k].result \in ErrorTexts
              ELSE calls[k].result = 50
    /\ \A i \in DOMAIN all_reports :
          LET r == heap[all_reports[i]]
          IN  /\ r.scouting_notes = ReportCall(i).result
              /\ r.score = ScoreCall(i).result
              /\ ReportFields \ {"rank"} \subseteq DOMAIN r
              /\ ScoreCall(i).reply # "ok" => r.score = 50 /\ r.tier = "D"
    /\ Ranked =>
          \A i \in DOMAIN all_reports :
              LET r == heap[all_reports[i]]
              IN  /\ DOMAIN r = ReportFields
                  /\ r.rank \in 1..Len(players)
                  /\ ranked_reports[r.rank] = all_reports[i]
                  /\ \A j \in DOMAIN all_reports :
                        heap[all_reports[j]].score > r.score
                            => heap[all_reports[j]].rank < r.rank

\* Both calls for the first player fail; the second player scores 90 and
\* is ranked ahead of the first.
C21_Witness ==
    /\ pc = "ranked"
    /\ provider = "ollama"
    /\ Len(players) = 2
    /\ ReportCall(1).reply = "status"
    /\ ScoreCall(1).reply = "connection"
    /\ heap[all_reports[1]].scouting_notes = ErrorStatus
    /\ heap[all_reports[1]].score = 50
    /\ heap[all_reports[1]].tier = "D"
    /\ heap[all_reports[1]].rank = 2
    /\ heap[all_reports[2]].score = 90

\* Calls of the generate_player_report in progress that have returned.
CallsInProgress ==
    CASE pc = "generate_report returned" -> 1
      [] pc = "generate_score returned" -> 2
      [] OTHER -> 0

\* C23: for each player generate_player_report calls generate_report once
\* and then generate_score once, both with the same prompt, built from the
\* player's name, role and metrics; no outcome is retried; the tier is
\* computed only after the score has been returned.
C23_OncePerPlayer ==
    /\ Len(calls) = 2 * idx + CallsInProgress
    /\ \A k \in DOMAIN calls :
          LET row == players[(k + 1) \div 2]
          IN  /\ calls[k].method =
                    (IF k % 2 = 1 THEN "generate_report" ELSE "generate_score")
              /\ calls[k].prompt.player_name = row.player_name
              /\ calls[k].prompt.position = row.position
              /\ calls[k].prompt.metrics = row.metrics
              /\ k % 2 = 0 => calls[k].prompt = calls[k - 1].prompt
    /\ Len(heap) = idx
    /\ \A i \in DOMAIN heap : heap[i].tier = TierOf(ScoreCall(i).result)
    /\ CallsInProgress > 0 => "tier" \notin DOMAIN locals

\* Two different players are done; the failed generate_report call for the
\* second was not repeated.
C23_Witness ==
    /\ pc = "loop"
    /\ idx = 2
    /\ players[1] # players[2]
    /\ Len(calls) = 4
    /\ calls[3].reply = "exception"
    /\ calls[4].method = "generate_score"

(***************************************************************************)
(* main() of src/player_movement_scout.py.                                 *)
(***************************************************************************)
\* The events and tracking rows main() hands to the calls for a player.
EventsOf(player_id) == get_player_rows(arg.event_data, player_id)

TrackingOf(player_id) == get_player_rows(arg.tracking_data, player_id)

Qualifies(player_id) == Len(EventsOf(player_id).rows) >= arg.MIN_EVENTS_THRESHOLD

\* C22: no player's degraded data aborts the batch: whatever the tracking
\* series, the event columns and the role cell of a player are, no exception
\* leaves the loop over players, and a finished loop has dealt with every
\* player of the list.
C22_AsClaimed ==
    /\ pc # "raised"
    /\ pc # "loop" => idx = Len(players)

\* The rows of the players list the loop has gone through that have enough events.
QualifyingRows(n) ==
    SelectSeq(SubSeq(players, 1, n), LAMBDA row : Qualifies(row.player_id))

\* The calls made for a sequence of rows: three for each row, in order.
CallsFor(rows) ==
    [k \in 1..(3 * Len(rows)) |->
        MainCall(<<"calculate_all_metrics", "generate_report", "generate_score">>[((k - 1) % 3) + 1],
                 rows[((k - 1) \div 3) + 1].player_id)]

\* C30: a player of the list yields a report exactly when the player has at
\* least MIN_EVENTS_THRESHOLD events: a player with fewer is passed over with
\* no metric or capability call, every other player has the metrics and the
\* report computed and appends one report, so that the batch follows the
\* players list; main() ends only after the whole list, and with no report
\* it ends before ranking, summary and output.
C30_AsClaimed ==
    /\ Len(all_reports) = Len(QualifyingRows(idx))
    /\ \A i \in DOMAIN all_reports :
          /\ heap[all_reports[i]].player_name = QualifyingRows(idx)[i].player_name
          /\ heap[all_reports[i]].position = QualifyingRows(idx)[i].position
    /\ calls = CallsFor(QualifyingRows(idx))
    /\ pc # "loop" => idx = Len(players)
    /\ pc = "returned" <=> (pc # "loop" /\ QualifyingRows(Len(players)) = <<>>)
    /\ pc = "returned" =>
          ranked_reports = <<>> /\ summary = None /\ output_file = None

\* C29: the players list holds at most one row for a player id, also when
\* the event rows of that id carry two names, positions or teams, so that
\* the loop produces at most one report for a player.
C29_AsClaimed ==
    /\ \A i, j \in DOMAIN players :
          players[i].player_id = players[j].player_id => i = j
    /\ Len(all_reports) <= Cardinality({players[i].player_id : i \in DOMAIN players})

(***************************************************************************)
(* Relations between the metrics of one call.                              *)
(***************************************************************************)
\* C28: for a series with x, y and time columns the max_speed of
\* calculate_all_metrics is at least its average_speed, repeated timestamps
\* included.
C28_AsClaimed ==
    op = "calculate_all_metrics" =>
        FracLeq(ret.average_speed, ret.max_speed)

\* C25: a call of calculate_total_distance, calculate_average_speed,
\* calculate_max_speed, calculate_direction_changes or calculate_all_metrics
\* leaves the caller's tracking series and event set with the same rows in
\* the same order, and the same function called again on the same input
\* returns what the first call returned.
C25_Pure ==
    [][ /\ arg'.tracking_df = arg.tracking_df
        /\ arg'.event_df = arg.event_df
        /\ Len(ret') = 2 => ret'[2] = ret'[1] ]_vars

\* An unsorted series with a tie in time went through two calls of
\* calculate_all_metrics for a goalie: it is still unsorted, and both calls
\* returned the same lateral movement and distance.
C25_Witness ==
    /\ op = "calculate_all_metrics"
    /\ Len(ret) = 2
    /\ arg.position = <<"G">>
    /\ arg.tracking_df = DataFrame(<<"time", "x", "y">>,
                                   << [t |-> 1, p |-> <<3, 4>>],
                                      [t |-> 0, p |-> <<0, 0>>],
                                      [t |-> 0, p |-> <<3, 4>>] >>)
    /\ ret[1].lateral_movement = 6 * Scale
    /\ ret[2].total_distance = 5 * Scale

(***************************************************************************)
(* The summary and the ranking as views of the batch.                      *)
(***************************************************************************)
\* C26: top_3_players of the summary are the first min(3, n) reports of the
\* ranked list in its order: their ranks are 1..min(3, n), no report left out
\* has a higher score, and name, position, score and tier of an entry are
\* those of the ranked report at its place.
C26_TopThree ==
    pc \in {"summarized", "saved"} =>
        LET n == Len(ranked_reports)
            k == IF n < 3 THEN n ELSE 3
            top == summary.top_3_players
        IN  /\ Len(top) = k
            /\ \A i \in 1..k :
                  /\ DOMAIN top[i] = {"rank", "name", "position", "score", "tier"}
                  /\ top[i].rank = i
                  /\ top[i].name = heap[ranked_reports[i]].player_name
                  /\ top[i].position = heap[ranked_reports[i]].position
                  /\ top[i].score = heap[ranked_reports[i]].score
                  /\ top[i].tier = heap[ranked_reports[i]].tier
                  /\ \A j \in (k + 1)..n : heap[ranked_reports[j]].score <= top[i].score

\* Four reports, the one left out of the top three with a lower score than
\* the third, which itself is below the first.
C26_Witness ==
    /\ pc = "summarized"
    /\ Len(ranked_reports) = 4
    /\ Len(summary.top_3_players) = 3
    /\ heap[ranked_reports[4]].score < summary.top_3_players[3].score
    /\ summary.top_3_players[3].score < summary.top_3_players[1].score

\* C27: a call of rank_players changes nothing but ranks: the list passed
\* in keeps its length and order, the returned list holds the same reports,
\* every field of a report other than rank is as before, the rank written is
\* the one seen through the list passed in, a report outside the batch is
\* untouched, and a second call on a batch with an already ranked report
\* overwrites its rank with the place in the new list.
C27_OnlyRank ==
    [][ (pc' # pc /\ pc' \in {"ranked", "ranked again"}) =>
            LET batch == IF pc' = "ranked" THEN all_reports ELSE arg'
            IN  /\ all_reports' = all_reports
                /\ Len(ranked_reports') = Len(batch)
                /\ Range(ranked_reports') = Range(batch)
                /\ DOMAIN heap' = DOMAIN heap
                /\ \A o \in DOMAIN heap : Unranked(heap'[o]) = Unranked(heap[o])
                /\ \A o \in DOMAIN heap \ Range(batch) : heap'[o] = heap[o]
                /\ \A i \in DOMAIN batch :
                      \E k \in DOMAIN ranked_reports' :
                          /\ ranked_reports'[k] = batch[i]
                          /\ heap'[batch[i]].rank = k ]_vars

\* The lower-scored of two ranked reports is ranked again on its own: its
\* rank 2 is overwritten by 1, and the other report keeps its rank 1.
C27_Witness ==
    /\ pc = "ranked again"
    /\ Len(all_reports) = 2
    /\ arg = <<all_reports[1]>>
    /\ heap[all_reports[1]].score < heap[all_reports[2]].score
    /\ heap[all_reports[1]].rank = 1
    /\ heap[all_reports[2]].rank = 1

\* The number of places of a list of reports that hold the report.
Occurrences(reports, report) ==
    Cardinality({i \in DOMAIN reports : reports[i] = report})

RankedNow == [i \in DOMAIN ranked_reports |-> Unranked(heap[ranked_reports[i]])]

\* C24: ranking is a barrier: rank_players has run only when the loop has
\* gone through the whole players list, and no report is added in that run
\* once it has run.  With a capability whose result depends on the prompt alone, the
\* players processed in another order give the same reports (player,
\* metrics, notes, score, tier), and the ranked lists of the two orders
\* differ only at places whose score another place shares.
C24_Barrier ==
    /\ [](Ranked => (idx = Len(players) /\ Len(ranked_reports) = Len(all_reports)))
    /\ [][(Ranked /\ op' = op) => all_reports' = all_reports]_vars
    /\ []((op = "main again" /\ pc = "ranked") =>
            /\ Len(RankedNow) = Len(ret.ranked_reports)
            /\ \A i \in DOMAIN RankedNow :
                  /\ Occurrences(RankedNow, RankedNow[i])
                        = Occurrences(ret.ranked_reports, RankedNow[i])
                  /\ RankedNow[i].score = ret.ranked_reports[i].score
                  /\ RankedNow[i] # ret.ranked_reports[i] =>
                        \E j \in DOMAIN RankedNow :
                            j # i /\ RankedNow[j].score = RankedNow[i].score)

\* Two players with equal scores and different reports, processed in the
\* two orders: the ranked lists differ at the places of the equal scores.
C24_Witness ==
    /\ op = "main again"
    /\ pc = "ranked"
    /\ Len(players) = 2
    /\ players # ret.players
    /\ RankedNow # ret.ranked_reports
    /\ RankedNow[1] = ret.ranked_reports[2]

====
